---- MODULE Spec2Model ----
(***************************************************************************)
(* Model of the payment-checkout glue of Webpage-ultra:                    *)
(*   - the DNS upsert tool        (scripts/netlify-dns-stripe-pay.mjs)     *)
(*   - the session fetcher and the tiered session creator (part_000)       *)
(*   - the paid-confirmation relay and the legacy session creator          *)
(*     (part_001)                                                          *)
(* Strings that the code slices, trims or matches are sequences of         *)
(* one-character strings; strings that the code only compares are TLA+     *)
(* strings.  JS null / undefined / a thrown exception are the sentinels    *)
(* Null, Undefined and Throw.                                              *)
(***************************************************************************)
EXTENDS Integers, Sequences, FiniteSets, TLC

VARIABLES
  \* ---- DNS tool: inputs and the provider's state
  argv,       \* process.argv.slice(2)
  env,        \* process.env (the two variables the tool reads)
  dnsZones,   \* the provider's zone list: sequence of zone names; a zone's id is its index
  zone,       \* the DNS records of the zone the tool addresses, in the provider's list order
  nextId,     \* the id the provider gives to the next created record
  \* ---- DNS tool: the run
  pc,         \* position of main(): "start", "zones", "list", "delete", "post", "done"
  cfg,        \* the values main() parsed from argv and env
  cur,        \* which upsertRecord call is running: 1 = CNAME, 2 = TXT
  exitCode,   \* process.exitCode (0 while unset)
  reqs,       \* every request sent to the DNS provider, in order
  toDelete,   \* the matches the forced replace has still to delete
  upserts,    \* per upsertRecord call: the branch it took and the matches it found
  threw,      \* "none", "args" (main threw before any request), "api" (a request threw)
  zone0,      \* the zone's records when the run started
  printed,    \* the lines the run wrote to stdout and stderr, in order
  \* ---- DNS tool: other runs of the tool against the same provider
  parked,     \* the runs that are not executing now, each with its own process state
  history,    \* the runs that ended before the current one was started, oldest first
  interleaved,\* TRUE once a run was suspended between two of its provider calls
  \* ---- serverless handlers: one invocation
  handler,    \* which exports.handler runs: "fetcher", "tiered", "relay", "legacy"
  event,      \* the inbound request: httpMethod, headers, queryStringParameters, body
  henv,       \* process.env of the function
  hpc,        \* "start", "session" / "sink" / "create" (awaiting that fetch), "done"
  local,      \* the handler's locals that live across an await
  calls,      \* every outbound HTTP call of the invocation, in order
  response    \* what the invocation returned

dnsVars == <<argv, env, dnsZones, zone, nextId, pc, cfg, cur, exitCode, reqs, toDelete,
             upserts, threw, zone0, printed, parked, history, interleaved>>

\* what the current run shares with no other run and does not own: the other runs
otherRuns == <<parked, history, interleaved>>

hVars == <<handler, event, henv, hpc, local, calls, response>>

vars == <<dnsVars, hVars>>

----------------------------------------------------------------------------
(* JavaScript values *)

Null == "<null>"
Undefined == "<undefined>"
Throw == "<throw>"

\* JS truthiness of a string-or-nullish value
Truthy(v) == v \notin {Null, Undefined, ""}

\* a || b
Or(a, b) == IF Truthy(a) THEN a ELSE b

----------------------------------------------------------------------------
(* JavaScript strings that the handlers trim or match *)

\* the strings of the model that pass through String.prototype.trim or a RegExp
StringUniverse ==
  {"", " ", "cs_1", " cs_1 ", "cs_2",
   "cs_q", "Ann", "report", "VV-2024-00042", " VV-2024-00042 ",
   "VV-2024-00043", "VV-2024-0004", "VV-2024-000420", "vv-2024-00042", "VV-20a4-00042",
   "xVV-2024-00042", "VV_2024_00042", "tier_a", "tier_b", " tier_b ",
   "tier_c", "constructor", "brief_remote", "command_remote", "verify_ppi_inperson",
   "confirm_diag_inperson", " brief_remote ", "unknown", "toString", "ann@example.com",
   "price_1A", "prod_1A", "price_legacy"}

\* the characters of a string of the model
Chars(s) ==
  CASE s = "" -> <<>>
    [] s = " " -> <<" ">>
    [] s = "cs_1" -> <<"c", "s", "_", "1">>
    [] s = " cs_1 " -> <<" ", "c", "s", "_", "1", " ">>
    [] s = "cs_2" -> <<"c", "s", "_", "2">>
    [] s = "cs_q" -> <<"c", "s", "_", "q">>
    [] s = "Ann" -> <<"A", "n", "n">>
    [] s = "report" -> <<"r", "e", "p", "o", "r", "t">>
    [] s = "VV-2024-00042" -> <<"V", "V", "-", "2", "0", "2", "4", "-", "0", "0", "0", "4", "2">>
    [] s = " VV-2024-00042 " -> <<" ", "V", "V", "-", "2", "0", "2", "4", "-", "0", "0", "0", "4", "2", " ">>
    [] s = "VV-2024-00043" -> <<"V", "V", "-", "2", "0", "2", "4", "-", "0", "0", "0", "4", "3">>
    [] s = "VV-2024-0004" -> <<"V", "V", "-", "2", "0", "2", "4", "-", "0", "0", "0", "4">>
    [] s = "VV-2024-000420" -> <<"V", "V", "-", "2", "0", "2", "4", "-", "0", "0", "0", "4", "2", "0">>
    [] s = "vv-2024-00042" -> <<"v", "v", "-", "2", "0", "2", "4", "-", "0", "0", "0", "4", "2">>
    [] s = "VV-20a4-00042" -> <<"V", "V", "-", "2", "0", "a", "4", "-", "0", "0", "0", "4", "2">>
    [] s = "xVV-2024-00042" -> <<"x", "V", "V", "-", "2", "0", "2", "4", "-", "0", "0", "0", "4", "2">>
    [] s = "VV_2024_00042" -> <<"V", "V", "_", "2", "0", "2", "4", "_", "0", "0", "0", "4", "2">>
    [] s = "tier_a" -> <<"t", "i", "e", "r", "_", "a">>
    [] s = "tier_b" -> <<"t", "i", "e", "r", "_", "b">>
    [] s = " tier_b " -> <<" ", "t", "i", "e", "r", "_", "b", " ">>
    [] s = "tier_c" -> <<"t", "i", "e", "r", "_", "c">>
    [] s = "constructor" -> <<"c", "o", "n", "s", "t", "r", "u", "c", "t", "o", "r">>
    [] s = "brief_remote" -> <<"b", "r", "i", "e", "f", "_", "r", "e", "m", "o", "t", "e">>
    [] s = "command_remote" -> <<"c", "o", "m", "m", "a", "n", "d", "_", "r", "e", "m", "o", "t", "e">>
    [] s = "verify_ppi_inperson" -> <<"v", "e", "r", "i", "f", "y", "_", "p", "p", "i", "_", "i", "n", "p", "e", "r", "s", "o", "n">>
    [] s = "confirm_diag_inperson" -> <<"c", "o", "n", "f", "i", "r", "m", "_", "d", "i", "a", "g", "_", "i", "n", "p", "e", "r", "s", "o", "n">>
    [] s = " brief_remote " -> <<" ", "b", "r", "i", "e", "f", "_", "r", "e", "m", "o", "t", "e", " ">>
    [] s = "unknown" -> <<"u", "n", "k", "n", "o", "w", "n">>
    [] s = "toString" -> <<"t", "o", "S", "t", "r", "i", "n", "g">>
    [] s = "price_1A" -> <<"p", "r", "i", "c", "e", "_", "1", "A">>
    [] s = "prod_1A" -> <<"p", "r", "o", "d", "_", "1", "A">>
    [] s = "price_legacy" -> <<"p", "r", "i", "c", "e", "_", "l", "e", "g", "a", "c", "y">>
    [] s = "ann@example.com" -> <<"a", "n", "n", "@", "e", "x", "a", "m", "p", "l", "e", ".", "c", "o", "m">>

IsWhitespace(c) == c = " "

RECURSIVE TrimStart(_)
TrimStart(cs) == IF cs # <<>> /\ IsWhitespace(Head(cs)) THEN TrimStart(Tail(cs)) ELSE cs

RECURSIVE TrimEnd(_)
TrimEnd(cs) ==
  IF cs # <<>> /\ IsWhitespace(cs[Len(cs)]) THEN TrimEnd(SubSeq(cs, 1, Len(cs) - 1)) ELSE cs

\* String.prototype.trim
trim(s) == CHOOSE u \in StringUniverse : Chars(u) = TrimEnd(TrimStart(Chars(s)))

\* String(v || "").trim()
TrimOrEmpty(v) == trim(Or(v, ""))

IsDigit(c) == c \in {"0", "1", "2", "3", "4", "5", "6", "7", "8", "9"}

\* the invocation of a handler has not started: the state of the handlers in a DNS run
HandlersIdle ==
  /\ handler = "none"
  /\ event = <<>>
  /\ henv = <<>>
  /\ hpc = "idle"
  /\ local = <<>>
  /\ calls = <<>>
  /\ response = [kind |-> "none"]

----------------------------------------------------------------------------
(* DNS tool: scripts/netlify-dns-stripe-pay.mjs *)

\* the tokens of the modelled argv universe for which value.startsWith("--") holds
StartsWithDashDash(value) ==
  value \in {"--auth-token", "--zone", "--cname-host", "--cname-target", "--txt-host",
             "--txt-value", "--ttl", "--force", "--help"}

\* Array.prototype.indexOf, 1-based; 0 stands for JS's -1
indexOf(args, flag) ==
  IF \E i \in 1..Len(args) : args[i] = flag
  THEN CHOOSE i \in 1..Len(args) : args[i] = flag /\ \A j \in 1..(i - 1) : args[j] # flag
  ELSE 0

readArgValue(args, flag) ==
  LET index == indexOf(args, flag) IN
  IF index = 0 THEN Null
  ELSE LET value == IF index + 1 <= Len(args) THEN args[index + 1] ELSE Undefined IN
       IF ~Truthy(value) \/ StartsWithDashDash(value) THEN Throw ELSE value

hasFlag(args, flag) == \E i \in 1..Len(args) : args[i] = flag

\* zoneName.endsWith(".") and zoneName.slice(0, -1) on the zone names of the model
EndsWithDot(zoneName) == zoneName \in {"vinvoyant.com.", "vinvoyant.com..", "other.com."}

SliceLast(zoneName) ==
  CASE zoneName = "vinvoyant.com." -> "vinvoyant.com"
    [] zoneName = "vinvoyant.com.." -> "vinvoyant.com."
    [] zoneName = "other.com." -> "other.com"
    [] OTHER -> zoneName

normalizeZoneName(zoneName) == IF EndsWithDot(zoneName) THEN SliceLast(zoneName) ELSE zoneName

\* Number.parseInt(s, 10) on the --ttl and UNIT_AMOUNT values of the model; nan marks NaN
parseInt(s) ==
  CASE s = "300" -> [nan |-> FALSE, n |-> 300]
    [] s = "40" -> [nan |-> FALSE, n |-> 40]
    [] s = "9900" -> [nan |-> FALSE, n |-> 9900]
    [] s = "12900" -> [nan |-> FALSE, n |-> 12900]
    [] s = "600" -> [nan |-> FALSE, n |-> 600]
    [] s = "0" -> [nan |-> FALSE, n |-> 0]
    [] s = "12abc" -> [nan |-> FALSE, n |-> 12]
    [] OTHER -> [nan |-> TRUE, n |-> 0]

\* String(record.type).toUpperCase()
toUpperCase(s) ==
  CASE s = "cname" -> "CNAME"
    [] s = "txt" -> "TXT"
    [] OTHER -> s

redactValue(type, value) == IF type = "TXT" THEN "(redacted)" ELSE value

\* one console.log (stdout) or console.error (stderr) call: the pieces of its text in
\* order, the interpolated values as pieces of their own
Line(stream, text) == [stream |-> stream, text |-> text]

\* printHelp, lines 28-47
HelpLine ==
  Line("stdout", <<"Usage:", "node scripts/netlify-dns-stripe-pay.mjs [options]", "Options:",
                   "--auth-token <token> Netlify auth token (or set NETLIFY_AUTH_TOKEN)",
                   "--txt-value <value> TXT value (or set STRIPE_ACME_CHALLENGE_VALUE)",
                   "--force Replace existing differing records", "-h, --help Show help">>)

\* lines 132 and 149
MissingTokenLine ==
  Line("stderr", <<"Missing Netlify auth token. Set NETLIFY_AUTH_TOKEN or pass --auth-token.">>)

MissingTxtLine ==
  Line("stderr", <<"Missing TXT value. Set STRIPE_ACME_CHALLENGE_VALUE or pass --txt-value.">>)

\* lines 159-161
ZoneNotFoundLine(zoneName) ==
  Line("stderr", <<"DNS zone not found in Netlify DNS:", zoneName,
                   ". The domain's DNS must be hosted on Netlify DNS to apply records from this environment.">>)

\* lines 91-93, 98-100, 110, 118-120
OkLine(d) ==
  Line("stdout", <<"OK:", d.type, d.hostname, "already set to", redactValue(d.type, d.value)>>)

BlockedLine(d) ==
  Line("stderr", <<"Blocked:", d.type, d.hostname,
                   "exists with a different value. Re-run with --force to replace it.">>)

ReplacedLine(d) ==
  Line("stdout", <<"Replaced:", d.type, d.hostname, "(existing records removed)">>)

CreatedLine(d) ==
  Line("stdout", <<"Created:", d.type, d.hostname, "->", redactValue(d.type, d.value)>>)

\* main().catch, line 192: console.error(error?.message || String(error))
CaughtLine(message) == Line("stderr", IF message # <<>> THEN message ELSE <<"Error">>)

\* the message of the error main() throws before any request: the first readArgValue
\* that throws, in the order of lines 130-147, else the ttl check of lines 140-142
ArgsErrorMessage(args) ==
  LET missing(flag) == readArgValue(args, flag) = Throw IN
  CASE missing("--auth-token") -> <<"Missing value for", "--auth-token">>
    [] missing("--zone") -> <<"Missing value for", "--zone">>
    [] missing("--ttl") -> <<"Missing value for", "--ttl">>
    [] LET ttl == parseInt(Or(readArgValue(args, "--ttl"), "300")) IN ttl.nan \/ ttl.n <= 0
         -> <<"Invalid --ttl value (must be a positive integer).">>
    [] missing("--cname-host") -> <<"Missing value for", "--cname-host">>
    [] missing("--cname-target") -> <<"Missing value for", "--cname-target">>
    [] missing("--txt-host") -> <<"Missing value for", "--txt-host">>
    [] OTHER -> <<"Missing value for", "--txt-value">>

\* netlifyRequest, lines 60-64: the message of the error thrown for a response that is
\* not ok; text is the response's body, <<>> when it is empty or cannot be read
ErrorMessage(status, statusText, text) ==
  IF text # <<>> THEN <<status, statusText, ":">> \o text ELSE <<status, statusText>>

\* the body of a response that is not ok is the provider's to choose: none, a fixed
\* text, or a validation message that quotes the record that was submitted
ErrorBodies == {"none", "fixed", "quote"}

ResponseText(req, body) ==
  CASE body = "none" -> <<>>
    [] body = "quote" /\ req.method = "POST" ->
         <<"{\"code\":422,\"message\":\"invalid record", req.body.type, req.body.hostname,
           req.body.value, "\"}">>
    [] OTHER -> <<"{\"code\":500,\"message\":\"Internal Server Error\"}">>

\* the errors netlifyRequest throws although the provider carried the request out: the
\* response did not arrive (line 50), or its body was not JSON (line 66)
LostErrors == {"fetch failed", "Unexpected end of JSON input"}

\* how a request can end.  outcome "ok": carried out, netlifyRequest returned;
\*   "rejected": refused with a response that is not ok, netlifyRequest threw;
\*   "lost": carried out, but netlifyRequest threw all the same
Answer(outcome, detail) == [outcome |-> outcome, detail |-> detail]

Answers ==
  {Answer("ok", "")}
    \cup {Answer("rejected", body) : body \in ErrorBodies}
    \cup {Answer("lost", m) : m \in LostErrors}

\* a GET changes nothing at the provider: an answer that is lost is an answer that failed
GetAnswers == {a \in Answers : a.outcome # "lost" \/ a.detail = "fetch failed"}

\* the message of the error netlifyRequest throws for an answer that is not ok
ThrownMessage(req, res) ==
  IF res.outcome = "rejected"
  THEN IF req.method = "POST"
       THEN ErrorMessage("422", "Unprocessable Entity", ResponseText(req, res.detail))
       ELSE ErrorMessage("500", "Internal Server Error", ResponseText(req, res.detail))
  ELSE <<res.detail>>

\* main(), lines 124-154: everything before the first request.
\*   kind "help": printHelp and return; "throw": readArgValue or the ttl check threw;
\*   "exit": an early return with process.exitCode set; "run": go on to the requests.
MainArgs(args, e) ==
  IF hasFlag(args, "-h") \/ hasFlag(args, "--help") THEN [kind |-> "help"]
  ELSE
  LET tokenArg == readArgValue(args, "--auth-token")
      authToken == Or(tokenArg, e.NETLIFY_AUTH_TOKEN)
      zoneArg == readArgValue(args, "--zone")
      ttlArg == readArgValue(args, "--ttl")
      ttl == parseInt(Or(ttlArg, "300"))
      cnameHost == readArgValue(args, "--cname-host")
      cnameTarget == readArgValue(args, "--cname-target")
      txtHost == readArgValue(args, "--txt-host")
      txtArg == readArgValue(args, "--txt-value")
      txtValue == Or(txtArg, e.STRIPE_ACME_CHALLENGE_VALUE)
  IN
  IF tokenArg = Throw THEN [kind |-> "throw"]
  ELSE IF ~Truthy(authToken) THEN [kind |-> "exit", code |-> 2]
  ELSE IF zoneArg = Throw \/ ttlArg = Throw THEN [kind |-> "throw"]
  ELSE IF ttl.nan \/ ttl.n <= 0 THEN [kind |-> "throw"]
  ELSE IF cnameHost = Throw \/ cnameTarget = Throw \/ txtHost = Throw \/ txtArg = Throw
       THEN [kind |-> "throw"]
  ELSE IF ~Truthy(txtValue) THEN [kind |-> "exit", code |-> 2]
  ELSE [kind |-> "run",
        authToken |-> authToken,
        zoneName |-> normalizeZoneName(Or(zoneArg, "vinvoyant.com")),
        force |-> hasFlag(args, "--force"),
        desired |-> << [type |-> "CNAME", hostname |-> Or(cnameHost, "pay"),
                        value |-> Or(cnameTarget, "hosted-checkout.stripecdn.com"),
                        ttl |-> ttl.n],
                       [type |-> "TXT", hostname |-> Or(txtHost, "_acme-challenge.pay"),
                        value |-> txtValue, ttl |-> ttl.n] >>]

NoCfg == [kind |-> "none"]
NoUpsert == [branch |-> "none", matches |-> <<>>]

\* a request of netlifyRequest: method, path, and for the record paths the record's id / body
Request(method, path, id, body) == [method |-> method, path |-> path, id |-> id, body |-> body]
NoBody == [type |-> "", hostname |-> "", value |-> "", ttl |-> 0]

\* a handler that leaves an exit code that is already set
Catch_KeepsCode == exitCode' = (IF exitCode = 0 THEN 1 ELSE exitCode) /\ pc' = "done"

\* main().catch, lines 191-194
Catch == exitCode' = 1 /\ pc' = "done"

\* main().catch for an error thrown by netlifyRequest
Caught(message) ==
  Catch /\ threw' = "api" /\ printed' = Append(printed, CaughtLine(message))

\* main(), lines 124-154
Main ==
  /\ pc = "start"
  /\ LET r == MainArgs(argv, env) IN
     /\ cfg' = r
     /\ CASE r.kind = "help" ->
                 /\ pc' = "done" /\ printed' = Append(printed, HelpLine)
                 /\ UNCHANGED <<exitCode, threw>>
          [] r.kind = "throw" ->
                 /\ Catch /\ threw' = "args"
                 /\ printed' = Append(printed, CaughtLine(ArgsErrorMessage(argv)))
          [] r.kind = "exit" ->
                 /\ pc' = "done" /\ exitCode' = r.code /\ UNCHANGED threw
                 /\ printed' = Append(printed,
                                      IF ~Truthy(Or(readArgValue(argv, "--auth-token"),
                                                    env.NETLIFY_AUTH_TOKEN))
                                      THEN MissingTokenLine ELSE MissingTxtLine)
          [] OTHER -> pc' = "zones" /\ UNCHANGED <<exitCode, threw, printed>>
  /\ zone0' = zone
  /\ UNCHANGED hVars /\ UNCHANGED otherRuns
  /\ UNCHANGED <<argv, env, dnsZones, zone, nextId, cur, reqs, toDelete, upserts>>

\* a lookup that takes the first zone of the list, whatever its name
FindZone_First(zones, zoneName) == IF Len(zones) > 0 THEN 1 ELSE 0

\* zones.find((z) => normalizeZoneName(String(z.name)) === zoneName): the first match, 0 if none
FindZone(zones, zoneName) ==
  IF \E i \in 1..Len(zones) : normalizeZoneName(zones[i]) = zoneName
  THEN CHOOSE i \in 1..Len(zones) :
         /\ normalizeZoneName(zones[i]) = zoneName
         /\ \A j \in 1..(i - 1) : normalizeZoneName(zones[j]) # zoneName
  ELSE 0

ZonesRequest == Request("GET", "/dns_zones", 0, NoBody)

\* main(), lines 156-164: GET /dns_zones and the zone lookup
ListZones(res) ==
  /\ pc = "zones"
  /\ reqs' = Append(reqs, ZonesRequest)
  /\ IF res.outcome # "ok" THEN Caught(ThrownMessage(ZonesRequest, res)) /\ UNCHANGED cur
     ELSE /\ UNCHANGED threw
          /\ IF FindZone(dnsZones, cfg.zoneName) = 0
             THEN /\ pc' = "done" /\ exitCode' = 3 /\ UNCHANGED cur
                  /\ printed' = Append(printed, ZoneNotFoundLine(cfg.zoneName))
             ELSE pc' = "list" /\ cur' = 1 /\ UNCHANGED <<exitCode, printed>>
  /\ UNCHANGED hVars /\ UNCHANGED otherRuns
  /\ UNCHANGED <<argv, env, dnsZones, zone0, zone, nextId, cfg, toDelete, upserts>>

\* a filter that compares the type only
Matches_TypeOnly(existingRecords, desiredRecord) ==
  SelectSeq(existingRecords, LAMBDA record : record.type = desiredRecord.type)

\* a filter that compares the type as the provider lists it
Matches_ExactType(existingRecords, desiredRecord) ==
  SelectSeq(existingRecords,
            LAMBDA record : /\ record.type = desiredRecord.type
                            /\ record.hostname = desiredRecord.hostname)

\* upsertRecord, lines 81-85
Matches(existingRecords, desiredRecord) ==
  SelectSeq(existingRecords,
            LAMBDA record : /\ toUpperCase(record.type) = desiredRecord.type
                            /\ record.hostname = desiredRecord.hostname)

\* upsertRecord, line 90
SomeHasValue(matches, desiredValue) ==
  \E i \in 1..Len(matches) : matches[i].value = desiredValue

\* a decision that replaces a differing record without asking for --force
Decide_ForceAlways(matches, desiredValue, force) ==
  IF \E i \in 1..Len(matches) : matches[i].value = desiredValue THEN "ok"
  ELSE IF Len(matches) > 0 THEN "replace"
  ELSE "create"

\* a decision that is satisfied only when every match has the desired value
Decide_EveryMatch(matches, desiredValue, force) ==
  IF Len(matches) > 0 /\ \A i \in 1..Len(matches) : matches[i].value = desiredValue THEN "ok"
  ELSE IF Len(matches) > 0 /\ ~force THEN "blocked"
  ELSE IF Len(matches) > 0 /\ force THEN "replace"
  ELSE "create"

\* upsertRecord, lines 90-111: the branch taken once the matches are known
Decide(matches, desiredValue, force) ==
  IF SomeHasValue(matches, desiredValue) THEN "ok"
  ELSE IF Len(matches) > 0 /\ ~force THEN "blocked"
  ELSE IF Len(matches) > 0 /\ force THEN "replace"
  ELSE "create"

\* the return of an upsertRecord call: main() goes on to the TXT record, or ends
UpsertReturns ==
  IF cur = 1 THEN pc' = "list" /\ cur' = 2 ELSE pc' = "done" /\ cur' = cur

RecordsRequest == Request("GET", "/dns_zones/{zone}/dns_records", 0, NoBody)

\* upsertRecord, lines 79-103: GET the zone's records and decide
ListRecords(res) ==
  /\ pc = "list"
  /\ reqs' = Append(reqs, RecordsRequest)
  /\ IF res.outcome # "ok"
     THEN Caught(ThrownMessage(RecordsRequest, res)) /\ UNCHANGED <<cur, toDelete, upserts>>
     ELSE LET desiredRecord == cfg.desired[cur]
              matches == Matches(zone, desiredRecord)
              branch == Decide(matches, desiredRecord.value, cfg.force)
          IN
          /\ UNCHANGED threw
          /\ upserts' = [upserts EXCEPT ![cur] = [branch |-> branch, matches |-> matches]]
          /\ CASE branch = "ok" ->
                      /\ printed' = Append(printed, OkLine(desiredRecord))
                      /\ UpsertReturns /\ UNCHANGED <<exitCode, toDelete>>
               [] branch = "blocked" ->
                      /\ printed' = Append(printed, BlockedLine(desiredRecord))
                      /\ exitCode' = 2 /\ UpsertReturns /\ UNCHANGED toDelete
               [] branch = "replace" ->
                      /\ toDelete' = matches /\ pc' = "delete"
                      /\ UNCHANGED <<cur, exitCode, printed>>
               [] OTHER -> pc' = "post" /\ UNCHANGED <<cur, exitCode, toDelete, printed>>
  /\ UNCHANGED hVars /\ UNCHANGED otherRuns
  /\ UNCHANGED <<argv, env, dnsZones, zone0, zone, nextId, cfg>>

\* the provider removing the record with the given id
RemoveId(records, id) == SelectSeq(records, LAMBDA record : record.id # id)

DeleteRequest(id) == Request("DELETE", "/dns_zones/{zone}/dns_records/{id}", id, NoBody)

\* upsertRecord, lines 107-110: one DELETE of the loop, and the line that follows the
\* last one.  A record that another run deleted meanwhile is not found: the provider
\* refuses the request.
DeleteRecord(res) ==
  /\ pc = "delete"
  /\ LET record == Head(toDelete)
         there == \E i \in 1..Len(zone) : zone[i].id = record.id
     IN
     /\ reqs' = Append(reqs, DeleteRequest(record.id))
     /\ (res.outcome # "rejected") => there
     /\ zone' = IF res.outcome = "rejected" THEN zone ELSE RemoveId(zone, record.id)
     /\ IF res.outcome # "ok"
        THEN Caught(ThrownMessage(DeleteRequest(record.id), res)) /\ UNCHANGED toDelete
        ELSE /\ toDelete' = Tail(toDelete)
             /\ pc' = IF Len(toDelete) = 1 THEN "post" ELSE "delete"
             /\ printed' = IF Len(toDelete) = 1
                           THEN Append(printed, ReplacedLine(cfg.desired[cur]))
                           ELSE printed
             /\ UNCHANGED <<exitCode, threw>>
  /\ UNCHANGED hVars /\ UNCHANGED otherRuns
  /\ UNCHANGED <<argv, env, dnsZones, zone0, nextId, cfg, cur, upserts>>

CreateRequest(desiredRecord) ==
  Request("POST", "/dns_zones/{zone}/dns_records", 0, desiredRecord)

\* upsertRecord, lines 113-120: POST the desired record.  The provider keeps no
\* uniqueness of (type, hostname): it adds the record to the zone's list.
CreateRecord(res) ==
  /\ pc = "post"
  /\ LET desiredRecord == cfg.desired[cur] IN
     /\ reqs' = Append(reqs, CreateRequest(desiredRecord))
     /\ IF res.outcome = "rejected"
        THEN UNCHANGED <<zone, nextId>>
        ELSE /\ zone' = Append(zone, [id |-> nextId, type |-> desiredRecord.type,
                                      hostname |-> desiredRecord.hostname,
                                      value |-> desiredRecord.value, ttl |-> desiredRecord.ttl])
             /\ nextId' = nextId + 1
     /\ IF res.outcome # "ok"
        THEN Caught(ThrownMessage(CreateRequest(desiredRecord), res)) /\ UNCHANGED cur
        ELSE /\ printed' = Append(printed, CreatedLine(desiredRecord))
             /\ UpsertReturns
             /\ UNCHANGED <<exitCode, threw>>
  /\ UNCHANGED hVars /\ UNCHANGED otherRuns
  /\ UNCHANGED <<argv, env, dnsZones, zone0, cfg, toDelete, upserts>>

NextDns ==
  \/ Main
  \/ \E res \in GetAnswers : ListZones(res)
  \/ \E res \in GetAnswers : ListRecords(res)
  \/ \E res \in Answers : DeleteRecord(res)
  \/ \E res \in Answers : CreateRecord(res)

----------------------------------------------------------------------------
(* DNS tool: several runs against the same provider.  Each run is a process of its
   own: it shares nothing with the others but the provider's zone. *)

\* the runs of the tool beside the first one
MaxPeers == 1

\* the calls of the tool after the first one has ended
MaxReruns == 1

\* the process state of the current run
ThisRun ==
  [argv |-> argv, env |-> env, pc |-> pc, cfg |-> cfg, cur |-> cur, exitCode |-> exitCode,
   reqs |-> reqs, toDelete |-> toDelete, upserts |-> upserts, threw |-> threw,
   zone0 |-> zone0, printed |-> printed]

\* a process that has not yet entered main(): process.exitCode unset, nothing printed
FreshRun(args, e) ==
  [argv |-> args, env |-> e, pc |-> "start", cfg |-> NoCfg, cur |-> 0, exitCode |-> 0,
   reqs |-> <<>>, toDelete |-> <<>>, upserts |-> <<NoUpsert, NoUpsert>>, threw |-> "none",
   zone0 |-> <<>>, printed |-> <<>>]

\* run r becomes the current run
Resume(r) ==
  /\ argv' = r.argv /\ env' = r.env /\ pc' = r.pc /\ cfg' = r.cfg /\ cur' = r.cur
  /\ exitCode' = r.exitCode /\ reqs' = r.reqs /\ toDelete' = r.toDelete
  /\ upserts' = r.upserts /\ threw' = r.threw /\ zone0' = r.zone0 /\ printed' = r.printed

\* the current run waits at an await (lines 79, 108, 113, 156), has not started or has
\* ended, and another run that has not ended goes on.  The runs' provider calls
\* interleave when the run that waits has sent a request and has not ended.
Switch(i) ==
  /\ pc # "idle"
  /\ i \in 1..Len(parked)
  /\ parked[i].pc # "done"
  /\ Resume(parked[i])
  /\ parked' = [parked EXCEPT ![i] = ThisRun]
  /\ interleaved' = (interleaved \/ (reqs # <<>> /\ pc # "done"))
  /\ UNCHANGED <<dnsZones, zone, nextId, history>> /\ UNCHANGED hVars

\* the tool is called again, with arguments args, after the current run has ended
Rerun(args) ==
  /\ pc = "done"
  /\ Len(history) < MaxReruns
  /\ history' = Append(history, [run |-> ThisRun, zone |-> zone])
  /\ Resume(FreshRun(args, env))
  /\ UNCHANGED <<dnsZones, zone, nextId, parked, interleaved>> /\ UNCHANGED hVars

----------------------------------------------------------------------------
(* DNS tool: the inputs and provider states the runs start from *)

MaxInitRecords == 2

Absent == "<absent>"
NoValue == "<novalue>"

\* an option on the command line: left out, given without its value, or given with value c
Opt(flag, c) == IF c = Absent THEN <<>> ELSE IF c = NoValue THEN <<flag>> ELSE <<flag, c>>

ArgvOf(a) ==
  Opt("--auth-token", a.tok) \o Opt("--zone", a.zone) \o Opt("--ttl", a.ttl)
    \o Opt("--txt-value", a.txt) \o (IF a.force THEN <<"--force">> ELSE <<>>)
    \o (IF a.help = Absent THEN <<>> ELSE <<a.help>>)

\* every command line of the model, well-formed or not
ArgvAll ==
  { ArgvOf(a) : a \in [tok : {Absent, NoValue, "nfp_token"},
                       zone : {Absent, "vinvoyant.com.", "other.com"},
                       ttl : {Absent, "600", "abc", "0"},
                       txt : {Absent, NoValue, "acme-1"},
                       force : BOOLEAN,
                       help : {Absent, "-h", "--help"}] }

EnvAll ==
  [NETLIFY_AUTH_TOKEN : {Undefined, "nfp_env"},
   STRIPE_ACME_CHALLENGE_VALUE : {Undefined, "acme-2"}]

\* the command lines that reach the upserts
ArgvRun ==
  { ArgvOf(a) : a \in [tok : {"nfp_token"}, zone : {Absent}, ttl : {Absent},
                       txt : {Absent, "acme-1"}, force : BOOLEAN, help : {Absent}] }

EnvRun == [NETLIFY_AUTH_TOKEN : {Undefined}, STRIPE_ACME_CHALLENGE_VALUE : {"acme-2"}]

RecordTypes == {"CNAME", "cname", "TXT"}
Hostnames == {"pay", "_acme-challenge.pay"}
ValuesOf(type) ==
  IF toUpperCase(type) = "CNAME" THEN {"hosted-checkout.stripecdn.com", "old.example.net"}
  ELSE {"acme-1", "acme-2"}

RecordBodies ==
  UNION { [type : {t}, hostname : Hostnames, value : ValuesOf(t), ttl : {300, 3600}]
          : t \in RecordTypes }

WithId(body, id) ==
  [id |-> id, type |-> body.type, hostname |-> body.hostname, value |-> body.value,
   ttl |-> body.ttl]

\* the zones of at most MaxInitRecords records, ids in list order
ZonesUpTo(n) ==
  UNION { { [i \in 1..k |-> WithId(f[i], i)] : f \in [1..k -> RecordBodies] } : k \in 0..n }

\* a few zones for the runs that vary the command line
ZonesFew ==
  { <<>>,
    << WithId([type |-> "CNAME", hostname |-> "pay", value |-> "old.example.net", ttl |-> 300], 1),
       WithId([type |-> "TXT", hostname |-> "_acme-challenge.pay", value |-> "acme-1", ttl |-> 300], 2) >> }

\* larger zones: two conflicting CNAME records beside a record of another key, and
\* correct records of another TTL beside a differing record of the same key
ZonesPicked ==
  { << WithId([type |-> "cname", hostname |-> "pay", value |-> "old.example.net", ttl |-> 300], 1),
       WithId([type |-> "TXT", hostname |-> "pay", value |-> "acme-1", ttl |-> 300], 2),
       WithId([type |-> "CNAME", hostname |-> "pay", value |-> "old.example.net", ttl |-> 3600], 3) >>,
    << WithId([type |-> "CNAME", hostname |-> "pay", value |-> "hosted-checkout.stripecdn.com", ttl |-> 3600], 1),
       WithId([type |-> "CNAME", hostname |-> "pay", value |-> "old.example.net", ttl |-> 300], 2),
       WithId([type |-> "TXT", hostname |-> "_acme-challenge.pay", value |-> "acme-2", ttl |-> 3600], 3) >> }

ZoneLists ==
  { <<>>, <<"other.com">>, <<"vinvoyant.com">>, <<"other.com.", "vinvoyant.com.">>,
    <<"vinvoyant.com..">> }

\* the first run about to enter main(), the other runs not yet started
InitRuns(argvs, envs, zoneLists, zones, peers) ==
  /\ argv \in argvs
  /\ env \in envs
  /\ dnsZones \in zoneLists
  /\ zone \in zones
  /\ nextId = Len(zone) + 1
  /\ pc = "start"
  /\ cfg = NoCfg
  /\ cur = 0
  /\ exitCode = 0
  /\ reqs = <<>>
  /\ toDelete = <<>>
  /\ upserts = <<NoUpsert, NoUpsert>>
  /\ threw = "none"
  /\ zone0 = zone
  /\ printed = <<>>
  /\ parked \in peers
  /\ history = <<>>
  /\ interleaved = FALSE
  /\ HandlersIdle

\* one run of the tool
InitDnsWith(argvs, envs, zoneLists, zones) == InitRuns(argvs, envs, zoneLists, zones, {<<>>})

\* runs over every zone content, with command lines that reach the upserts
InitDns ==
  InitDnsWith(ArgvRun, EnvRun, {<<"other.com.", "vinvoyant.com.">>},
              ZonesUpTo(MaxInitRecords) \cup ZonesPicked)

\* runs over every command line and zone list, with a few zone contents
InitDnsArgs == InitDnsWith(ArgvAll, EnvAll, ZoneLists, ZonesFew)

SpecDns == InitDns /\ [][NextDns]_vars

SpecDnsArgs == InitDnsArgs /\ [][NextDns]_vars

\* the zone holds at most one record per (type, hostname), the type read as the tool
\* reads it
UniqueKeys(z) ==
  \A i, j \in 1..Len(z) :
    (toUpperCase(z[i].type) = toUpperCase(z[j].type) /\ z[i].hostname = z[j].hostname)
      => i = j

\* zones for the specifications of several runs: no record, one record that differs
\* from the desired one or equals it, and both records as every run desires them
ZonesShared ==
  ZonesFew \cup
  { << WithId([type |-> "cname", hostname |-> "pay", value |-> "old.example.net", ttl |-> 300], 1) >>,
    << WithId([type |-> "TXT", hostname |-> "_acme-challenge.pay", value |-> "acme-2", ttl |-> 300], 1) >>,
    << WithId([type |-> "CNAME", hostname |-> "pay", value |-> "hosted-checkout.stripecdn.com", ttl |-> 300], 1),
       WithId([type |-> "TXT", hostname |-> "pay", value |-> "acme-1", ttl |-> 300], 2) >> }

\* those of them that hold at most one record per key and no record of another key
ZonesUnique ==
  {z \in ZonesShared :
     UniqueKeys(z) /\ \A i \in 1..Len(z) : z[i].hostname # "pay" \/ z[i].type # "TXT"}

\* the answers the runs of SpecDnsConcurrent get to a DELETE and a POST: carried out,
\* refused, lost; their GETs are answered (a GET that fails ends the run and changes
\* nothing at the provider)
PlainAnswers ==
  {Answer("ok", ""), Answer("rejected", "none"), Answer("lost", "fetch failed")}

\* the command lines of the other runs: the TXT value of the environment, with and
\* without --force
ArgvPeer ==
  { ArgvOf(a) : a \in [tok : {"nfp_token"}, zone : {Absent}, ttl : {Absent},
                       txt : {Absent}, force : BOOLEAN, help : {Absent}] }

\* MaxPeers + 1 runs of the tool started against a zone of unique keys and running at
\* the same time: the first with either TXT value, the same as the others' or not,
\* each with or without --force
InitDnsConcurrent ==
  InitRuns(ArgvRun, EnvRun, {<<"vinvoyant.com">>}, ZonesUnique,
           [1..MaxPeers -> {FreshRun(a, e) : a \in ArgvPeer, e \in EnvRun}])

\* one run, and the tool called again up to MaxReruns times after it has ended
InitDnsRerun ==
  InitDnsWith(ArgvRun, EnvRun, {<<"vinvoyant.com">>}, ZonesShared \cup ZonesPicked)

NextDnsRerun ==
  \/ NextDns
  \/ \E a \in ArgvRun : Rerun(a)

SpecDnsRerun == InitDnsRerun /\ [][NextDnsRerun]_vars

NextDnsConcurrent ==
  \/ Main
  \/ \E res \in {Answer("ok", "")} : ListZones(res)
  \/ \E res \in {Answer("ok", "")} : ListRecords(res)
  \/ \E res \in PlainAnswers : DeleteRecord(res)
  \/ \E res \in PlainAnswers : CreateRecord(res)
  \/ \E i \in 1..MaxPeers : Switch(i)

SpecDnsConcurrent == InitDnsConcurrent /\ [][NextDnsConcurrent]_vars


----------------------------------------------------------------------------
(* DNS tool: properties *)

\* record carries the desired record's (type, hostname), the type read without regard to case
HasKey(record, d) ==
  /\ record.hostname = d.hostname
  /\ \/ d.type = "CNAME" /\ record.type \in {"CNAME", "cname"}
     \/ d.type = "TXT" /\ record.type \in {"TXT", "txt"}

KeyRecords(z, d) == SelectSeq(z, LAMBDA record : HasKey(record, d))

HoldsDesired(z, d) ==
  \E i \in 1..Len(z) : HasKey(z[i], d) /\ z[i].value = d.value

\* the zone holds records of the desired (type, hostname), none with the desired value
Conflicting(z, d) == Len(KeyRecords(z, d)) > 0 /\ ~HoldsDesired(z, d)

IsMutation(r) == r.method \in {"DELETE", "POST"}

IsPostFor(r, d) ==
  r.method = "POST" /\ r.body.type = d.type /\ r.body.hostname = d.hostname

\* the positions in reqs of the record-list GETs: one per upsertRecord call that started
RecordGets ==
  { i \in 1..Len(reqs) :
      reqs[i].method = "GET" /\ reqs[i].path = "/dns_zones/{zone}/dns_records" }

ListIdx(k) ==
  IF Cardinality(RecordGets) < k THEN 0
  ELSE CHOOSE i \in RecordGets : Cardinality({j \in RecordGets : j < i}) = k - 1

\* the requests upsertRecord call k sent after its record-list GET
Segment(k) ==
  IF ListIdx(k) = 0 THEN <<>>
  ELSE SubSeq(reqs, ListIdx(k) + 1,
              IF k = 1 /\ ListIdx(2) > 0 THEN ListIdx(2) - 1 ELSE Len(reqs))

\* upsertRecord call k returned normally
Completed(k) == cur > k \/ (cur = k /\ pc = "done" /\ threw = "none")

\* C1 as stated: in a run without --force in which every provider call succeeds, a
\* conflict on either desired record makes the run end with exit code 2 and without
\* any DELETE or POST, for the conflicting record and for the other one alike.
C1_NoMutationWhenBlocked ==
  (/\ pc = "done" /\ cfg.kind = "run" /\ ~cfg.force /\ threw = "none"
   /\ \E k \in 1..2 : Conflicting(zone0, cfg.desired[k]))
  => (exitCode = 2 /\ \A i \in 1..Len(reqs) : ~IsMutation(reqs[i]))

\* C1 amended: a run without --force never sends a DELETE; a desired record whose
\* (type, hostname) the zone holds only with other values gets no POST and its records
\* stay as they were; such a run ends with exit code 2 when no provider call fails and
\* with 1 when one does.  (The other desired record is still upserted on its own.)
C1_BlockedRecordUntouched ==
  (cfg.kind = "run" /\ ~cfg.force) =>
    /\ \A i \in 1..Len(reqs) : reqs[i].method # "DELETE"
    /\ \A k \in 1..2 :
         LET d == cfg.desired[k] IN
         Conflicting(zone0, d) =>
           /\ \A i \in 1..Len(reqs) : ~IsPostFor(reqs[i], d)
           /\ KeyRecords(zone, d) = KeyRecords(zone0, d)
           /\ (pc = "done" /\ threw = "none") => exitCode = 2
           /\ (pc = "done" /\ threw = "api") => exitCode = 1

\* a run that was blocked on the CNAME record, created the TXT record and ended with 2
C1_Witness ==
  /\ pc = "done" /\ cfg.kind = "run" /\ ~cfg.force /\ threw = "none" /\ exitCode = 2
  /\ Conflicting(zone0, cfg.desired[1])
  /\ upserts[1].branch = "blocked"
  /\ \E i \in 1..Len(reqs) : IsPostFor(reqs[i], cfg.desired[2])

\* C2: a forced replace (--force, the zone holds the desired (type, hostname) only with
\* other values) sends DELETEs for the matching records only, one each, in list order,
\* then one POST of the desired record, every DELETE before the POST; once the call
\* has returned, all matches were deleted and the zone holds exactly one record of that
\* (type, hostname), with the desired value.
C2_ForcedReplace ==
  \A k \in 1..2 :
    (cfg.kind = "run" /\ cfg.force /\ Conflicting(zone0, cfg.desired[k])) =>
      LET d == cfg.desired[k]
          old == KeyRecords(zone0, d)
          seg == Segment(k)
          dels == SelectSeq(seg, LAMBDA r : r.method = "DELETE")
          posts == SelectSeq(seg, LAMBDA r : r.method = "POST")
      IN
      /\ \A i \in 1..Len(seg) : IsMutation(seg[i])
      /\ Len(dels) <= Len(old)
      /\ \A j \in 1..Len(dels) : dels[j].id = old[j].id
      /\ Len(posts) <= 1
      /\ Len(posts) = 1 =>
           /\ Len(dels) = Len(old)
           /\ seg[Len(seg)] = posts[1]
           /\ posts[1].body = d
      /\ Completed(k) =>
           /\ Len(dels) = Len(old)
           /\ Len(posts) = 1
           /\ Len(KeyRecords(zone, d)) = 1
           /\ KeyRecords(zone, d)[1].value = d.value
           /\ \A i \in 1..Len(zone0) :
                ~HasKey(zone0[i], d) /\ ~HasKey(zone0[i], cfg.desired[3 - k]) =>
                  \E j \in 1..Len(zone) : zone[j] = zone0[i]

\* a forced replace of two CNAME records, one listed with a lower-case type, beside a
\* record of another (type, hostname) that is still in the zone
C2_Witness ==
  /\ cfg.kind = "run" /\ cfg.force /\ Completed(1)
  /\ Len(KeyRecords(zone0, cfg.desired[1])) = 2
  /\ \E i \in 1..Len(zone0) : zone0[i].type = "cname" /\ HasKey(zone0[i], cfg.desired[1])
  /\ Len(SelectSeq(Segment(1), LAMBDA r : r.method = "DELETE")) = 2
  /\ \E i \in 1..Len(zone) : zone[i].type = "TXT" /\ zone[i].hostname = "pay"

\* C3: when the zone already holds, for the CNAME and for the TXT record, a record of
\* the same (type, hostname) with the desired value, the run sends GET requests only,
\* leaves the zone as it was and, its GETs answered, ends with exit code 0, with or
\* without --force.
C3_AlreadyCorrectIsNoOp ==
  (/\ cfg.kind = "run"
   /\ \A k \in 1..2 : HoldsDesired(zone0, cfg.desired[k]))
  => /\ \A i \in 1..Len(reqs) : reqs[i].method = "GET"
     /\ zone = zone0
     /\ (pc = "done" /\ threw = "none") => (exitCode = 0 /\ Len(reqs) = 3)

\* a forced run over a zone whose correct CNAME record has another TTL and shares its
\* (type, hostname) with a differing record
C3_Witness ==
  /\ pc = "done" /\ cfg.kind = "run" /\ cfg.force /\ threw = "none" /\ exitCode = 0
  /\ \A k \in 1..2 : HoldsDesired(zone0, cfg.desired[k])
  /\ Len(KeyRecords(zone0, cfg.desired[1])) = 2
  /\ \E i \in 1..Len(zone0) :
       /\ HasKey(zone0[i], cfg.desired[1]) /\ zone0[i].value = cfg.desired[1].value
       /\ zone0[i].ttl # cfg.desired[1].ttl
  /\ Len(reqs) = 3

HelpAsked == hasFlag(argv, "-h") \/ hasFlag(argv, "--help")

NoAuthToken == ~hasFlag(argv, "--auth-token") /\ env.NETLIFY_AUTH_TOKEN = Undefined

NoTxtValue == ~hasFlag(argv, "--txt-value") /\ env.STRIPE_ACME_CHALLENGE_VALUE = Undefined

\* the zone-list GET was answered
ZonesListed == Len(reqs) >= 1 /\ ~(Len(reqs) = 1 /\ threw = "api")

\* C10: a run (not a --help call) with no auth token, or with no TXT value, sends no
\* request and ends with a non-zero exit code (2 when the token is missing); a run
\* whose zone list holds no zone of the requested normalized name ends with exit code 3
\* having sent the zone-list GET and nothing else.
C10_FatalPreconditions ==
  /\ (~HelpAsked /\ (NoAuthToken \/ NoTxtValue)) =>
       /\ reqs = <<>>
       /\ pc \in {"start", "done"}
       /\ pc = "done" => exitCode # 0
       /\ (pc = "done" /\ NoAuthToken) => exitCode = 2
  /\ (/\ cfg.kind = "run" /\ ZonesListed
      /\ \A i \in 1..Len(dnsZones) : normalizeZoneName(dnsZones[i]) # cfg.zoneName)
     => /\ pc = "done"
        /\ exitCode = 3
        /\ reqs = <<Request("GET", "/dns_zones", 0, NoBody)>>

\* the requested zone missed by one more trailing dot than normalizeZoneName strips
C10_Witness ==
  /\ pc = "done" /\ exitCode = 3 /\ Len(reqs) = 1
  /\ dnsZones = <<"vinvoyant.com..">>
  /\ cfg.kind = "run" /\ cfg.zoneName = "vinvoyant.com"

\* a run that lacks the TXT value only
C10_WitnessNoTxt ==
  /\ pc = "done" /\ ~HelpAsked /\ NoTxtValue /\ ~NoAuthToken /\ exitCode = 2 /\ reqs = <<>>

----------------------------------------------------------------------------
(* DNS tool: what a run prints *)

\* the value of the TXT record of the run: the argument of --txt-value, else the
\* environment's STRIPE_ACME_CHALLENGE_VALUE
TheTxtValue ==
  LET i == indexOf(argv, "--txt-value") IN
  IF i # 0 /\ i + 1 <= Len(argv) THEN argv[i + 1] ELSE env.STRIPE_ACME_CHALLENGE_VALUE

\* the line carries the value as one of its pieces
Contains(line, value) == \E i \in 1..Len(line.text) : line.text[i] = value

LastReq == reqs[Len(reqs)]

\* C11 as stated: no line a run writes to stdout or stderr contains the TXT record's
\* value, whatever the outcome of the run, the message printed for a failed provider
\* call included.
C11_TxtValueNeverPrinted ==
  Truthy(TheTxtValue) => \A i \in 1..Len(printed) : ~Contains(printed[i], TheTxtValue)

\* the POST of the TXT record was refused with a response that quotes the submitted
\* record, and the run printed that response on stderr before ending with exit code 1
C11_Witness ==
  /\ pc = "done" /\ threw = "api" /\ exitCode = 1
  /\ cfg.kind = "run" /\ cur = 2
  /\ LastReq.method = "POST" /\ LastReq.body.type = "TXT"
  /\ LastReq.body.value = TheTxtValue
  /\ printed[Len(printed)].stream = "stderr"
  /\ Contains(printed[Len(printed)], TheTxtValue)
  /\ \A i \in 1..(Len(printed) - 1) : ~Contains(printed[i], TheTxtValue)

\* what the tool keeps of C11: the lines it composes itself (OK, Blocked, Replaced,
\* Created, the argument and zone messages) never carry the TXT value; the value is
\* printed only as part of the provider's response text in the message of a failed
\* POST of the TXT record, which is the last line of the run
C11_OnlyProviderTextLeaks ==
  Truthy(TheTxtValue) =>
    \A i \in 1..Len(printed) :
      Contains(printed[i], TheTxtValue) =>
        /\ i = Len(printed)
        /\ pc = "done" /\ threw = "api"
        /\ LastReq.method = "POST" /\ LastReq.body.type = "TXT"
        /\ printed[i].text[1] = "422"

----------------------------------------------------------------------------
(* DNS tool: several runs *)

\* two records of the same (type, hostname), the type read without regard to case
SameKey(a, b) ==
  /\ a.hostname = b.hostname
  /\ \/ a.type \in {"CNAME", "cname"} /\ b.type \in {"CNAME", "cname"}
     \/ a.type \in {"TXT", "txt"} /\ b.type \in {"TXT", "txt"}

AtMostOnePerKey(z) == \A i, j \in 1..Len(z) : SameKey(z[i], z[j]) => i = j

\* C12 as stated: runs started against a zone that holds at most one record per
\* (type, hostname) leave at most one record per (type, hostname), whatever their
\* desired values and --force settings, also when their provider calls interleave.
C12_UniquePerKey == AtMostOnePerKey(zone)

\* C12 amended: the same, for runs whose provider calls do not interleave: each run
\* sends its requests after the runs before it have ended.
C12_UniqueWhenNotInterleaved == ~interleaved => AtMostOnePerKey(zone)

\* two runs one after the other: the first created the TXT record, the second, forced
\* and with another value, replaced it; the zone holds one TXT record, the second's
C12_Witness ==
  /\ ~interleaved
  /\ pc = "done" /\ threw = "none" /\ cfg.kind = "run" /\ cfg.force
  /\ Len(parked) >= 1 /\ parked[1].pc = "done" /\ parked[1].threw = "none"
  /\ parked[1].upserts[2].branch = "create"
  /\ upserts[2].branch = "replace"
  /\ parked[1].cfg.desired[2].value # cfg.desired[2].value
  /\ Len(KeyRecords(zone, cfg.desired[2])) = 1
  /\ HoldsDesired(zone, cfg.desired[2])

\* two runs that both listed the zone before either created its TXT record: the zone
\* holds two TXT records of the same hostname
C12_WitnessInterleaved ==
  /\ interleaved
  /\ pc = "done" /\ Len(parked) >= 1 /\ parked[1].pc = "done"
  /\ upserts[2].branch = "create" /\ parked[1].upserts[2].branch = "create"
  /\ Len(KeyRecords(zone, cfg.desired[2])) = 2

\* the run before the current one, when the tool was called again
HasPrev == Len(history) > 0

Prev == history[Len(history)]

\* C13: (a) a run that reached its requests and ended with exit code 0 leaves a zone
\* that holds the desired CNAME record and the desired TXT record; (b) the tool called
\* again with the same arguments after such a run, nothing else changing the zone,
\* sends no DELETE and no POST, leaves the zone as that run left it and, its requests
\* answered, ends with exit code 0; (c) a run in which a provider call failed ends
\* with exit code 1, also when an earlier record of the run was blocked with code 2.
C13_ConvergesAndIdempotent ==
  /\ (cfg.kind = "run" /\ pc = "done" /\ exitCode = 0) =>
       \A k \in 1..2 : HoldsDesired(zone, cfg.desired[k])
  /\ (/\ HasPrev /\ Prev.run.cfg.kind = "run" /\ Prev.run.exitCode = 0
      /\ argv = Prev.run.argv /\ env = Prev.run.env) =>
       /\ \A i \in 1..Len(reqs) : ~IsMutation(reqs[i])
       /\ zone = Prev.zone
       /\ (pc = "done" /\ threw = "none") => (exitCode = 0 /\ Len(reqs) = 3)
  /\ (pc = "done" /\ threw = "api") =>
       /\ exitCode = 1
       /\ Len(reqs) >= 1

\* a forced run replaced the CNAME record and created the TXT record, ending with 0;
\* the same call again sent its three GETs only and ended with 0
C13_Witness ==
  /\ HasPrev /\ Prev.run.exitCode = 0 /\ Prev.run.threw = "none"
  /\ Prev.run.upserts[1].branch = "replace" /\ Prev.run.upserts[2].branch = "create"
  /\ Prev.zone # Prev.run.zone0
  /\ argv = Prev.run.argv
  /\ pc = "done" /\ threw = "none" /\ exitCode = 0
  /\ Len(reqs) = 3 /\ zone = Prev.zone
  /\ upserts[1].branch = "ok" /\ upserts[2].branch = "ok"

\* a run whose CNAME record was blocked (code 2) and whose next provider call failed
C13_WitnessFailureAfterBlocked ==
  /\ pc = "done" /\ threw = "api" /\ exitCode = 1
  /\ upserts[1].branch = "blocked"

----------------------------------------------------------------------------
(* Serverless handlers: what part_000 and part_001 share *)

\* json(statusCode, body)
json(statusCode, body) == [kind |-> "json", statusCode |-> statusCode, body |-> body]

\* the invocation's promise rejected: an exception left the handler
Rejected == [kind |-> "threw", statusCode |-> 0, body |-> [error |-> "exception"]]

\* JSON.parse(event.body || "{}") of the bodies of the model
\*   "empty": no body, read as "{}"; "invalid": not JSON; "null": the JSON text null
JSONparse(body) ==
  CASE body.kind = "invalid" -> [t |-> "throw"]
    [] body.kind = "null" -> [t |-> "null"]
    [] OTHER -> [t |-> "object", obj |-> body.obj]

\* a JSON object with none of the fields the handlers read
EmptyPayload ==
  [session_id |-> Undefined, sessionId |-> Undefined, request_id |-> Undefined,
   requestId |-> Undefined, rid |-> Undefined, email |-> Undefined,
   service_level |-> Undefined, serviceLevel |-> Undefined,
   vehicle_tier |-> Undefined, vehicleTier |-> Undefined,
   source |-> Undefined, name |-> Undefined, vin |-> Undefined, goal |-> Undefined,
   symptoms |-> Undefined, dtc_codes |-> Undefined, evidence_links |-> Undefined,
   deliverables |-> <<>>]

\* new URL(ref).origin of the referers of the model
URLorigin(ref) ==
  CASE ref = "https://ref.example/start" -> "https://ref.example"
    [] OTHER -> Throw

\* getOrigin(headers)
getOrigin(headers) ==
  IF Truthy(headers.origin) THEN headers.origin
  ELSE LET ref == Or(headers.referer, headers.referrer) IN
       IF ~Truthy(ref) THEN Null
       ELSE IF URLorigin(ref) = Throw THEN Null ELSE URLorigin(ref)

\* an outbound fetch: method, host, path, the path's argument, and the form body
Call(method, host, path, arg, params) ==
  [method |-> method, host |-> host, path |-> path, arg |-> arg, params |-> params]

\* fetchCheckoutSession, the request: GET https://api.stripe.com/v1/checkout/sessions/{id}
SessionGet(sessionId) ==
  Call("GET", "https://api.stripe.com", "/v1/checkout/sessions/{id}", sessionId, <<>>)

\* session.metadata?.rid || session.client_reference_id || ""
StoredRid(session) ==
  Or(Or(IF session.metadata.present THEN session.metadata.rid ELSE Undefined,
        session.client_reference_id), "")

\* the handler returns
Return(r) == response' = r /\ hpc' = "done"

----------------------------------------------------------------------------
(* Session fetcher: part_000, lines 25-65 *)

\* lines 35-43: the session id from the query string, else (POST) from the JSON body
FetcherSessionId(ev) ==
  LET fromQuery == TrimOrEmpty(ev.query.session_id)
      parsed == JSONparse(ev.body)
  IN IF ~Truthy(fromQuery) /\ ev.httpMethod = "POST" /\ parsed.t = "object"
     THEN TrimOrEmpty(Or(parsed.obj.session_id, parsed.obj.sessionId))
     ELSE fromQuery

\* lines 25-49: up to the await of fetchCheckoutSession
FetcherHandler ==
  /\ handler = "fetcher" /\ hpc = "start"
  /\ IF event.httpMethod # "GET" /\ event.httpMethod # "POST"
     THEN Return(json(405, [error |-> "Method Not Allowed"])) /\ UNCHANGED <<local, calls>>
     ELSE IF ~Truthy(henv.STRIPE_SECRET_KEY)
     THEN /\ Return(json(500, [error |-> "Missing STRIPE_SECRET_KEY in environment variables."]))
          /\ UNCHANGED <<local, calls>>
     ELSE IF ~Truthy(FetcherSessionId(event))
     THEN Return(json(400, [error |-> "Missing session_id."])) /\ UNCHANGED <<local, calls>>
     ELSE /\ local' = [local EXCEPT !.sessionId = FetcherSessionId(event)]
          /\ calls' = Append(calls, SessionGet(FetcherSessionId(event)))
          /\ hpc' = "session"
          /\ UNCHANGED response
  /\ UNCHANGED <<handler, event, henv>> /\ UNCHANGED dnsVars

\* a fetcher that reads the session's status instead of its payment_status
IsPaid_StatusComplete(session) == session.status = "complete"

\* line 55: session.payment_status === "paid"
IsPaid(session) == session.payment_status = "paid"

\* lines 49-64: fetchCheckoutSession answered with out
FetcherSessionFetched(out) ==
  /\ handler = "fetcher" /\ hpc = "session"
  /\ CASE out.t = "throw" -> Return(Rejected)
       [] out.t = "error" -> Return(json(out.status, [error |-> "Stripe error"]))
       [] OTHER ->
            LET session == out.data IN
            Return(json(200, [paid |-> IsPaid(session),
                              session_id |-> Or(session.id, local.sessionId),
                              rid |-> StoredRid(session),
                              status |-> session.status,
                              payment_status |-> session.payment_status]))
  /\ local' = [local EXCEPT !.out = out]
  /\ UNCHANGED <<handler, event, henv, calls>> /\ UNCHANGED dnsVars

----------------------------------------------------------------------------
(* Paid-confirmation relay: part_001, lines 37-118 *)

\* appendField(params, key, value); params is a sequence of <<key, value>>
appendField(params, key, value) ==
  IF value = Undefined \/ value = Null THEN params
  ELSE IF ~Truthy(trim(value)) THEN params
  ELSE Append(params, <<key, value>>)

RECURSIVE AppendEach(_, _, _)
\* for (const d of deliverables) appendField(params, "deliverables", d)
AppendEach(params, key, values) ==
  IF values = <<>> THEN params
  ELSE AppendEach(appendField(params, key, Head(values)), key, Tail(values))

\* lines 86-105: the form the relay posts to the sink
SinkParams(payload, requestId, sessionRef) ==
  LET p0 == <<<<"form-name", "vinvoyant_intake">>>>
      p1 == appendField(p0, "source", payload.source)
      p2 == appendField(p1, "request_id", requestId)
      p3 == appendField(p2, "name", payload.name)
      p4 == appendField(p3, "email", payload.email)
      p5 == appendField(p4, "vin", payload.vin)
      p6 == appendField(p5, "goal", payload.goal)
      p7 == appendField(p6, "service_level", Or(payload.service_level, payload.serviceLevel))
      p8 == appendField(p7, "vehicle_tier", Or(payload.vehicle_tier, payload.vehicleTier))
      p9 == appendField(p8, "symptoms", payload.symptoms)
      p10 == appendField(p9, "dtc_codes", payload.dtc_codes)
      p11 == appendField(p10, "evidence_links", payload.evidence_links)
      p12 == AppendEach(p11, "deliverables", payload.deliverables)
      p13 == Append(p12, <<"paid_confirmed", "true">>)
      p14 == Append(p13, <<"payment_reference", sessionRef>>)
  IN appendField(p14, "session_id", sessionRef)

\* lines 54-57: the payload, {} when the body is not JSON
RelayPayload(ev) ==
  LET parsed == JSONparse(ev.body) IN
  IF parsed.t = "throw" THEN [t |-> "object", obj |-> EmptyPayload] ELSE parsed

\* lines 44-65: up to the await of fetchCheckoutSession
RelayHandler ==
  /\ handler = "relay" /\ hpc = "start"
  /\ IF event.httpMethod # "POST"
     THEN Return(json(405, [error |-> "Method Not Allowed"])) /\ UNCHANGED <<local, calls>>
     ELSE IF ~Truthy(henv.STRIPE_SECRET_KEY)
     THEN /\ Return(json(500, [error |-> "Missing STRIPE_SECRET_KEY in environment variables."]))
          /\ UNCHANGED <<local, calls>>
     ELSE IF RelayPayload(event).t = "null"
     THEN Return(Rejected) /\ UNCHANGED <<local, calls>>
     ELSE LET payload == RelayPayload(event).obj
              sessionId == TrimOrEmpty(Or(payload.session_id, payload.sessionId))
              requestId == TrimOrEmpty(Or(payload.request_id, payload.requestId))
          IN
          IF ~Truthy(sessionId)
          THEN Return(json(400, [error |-> "Missing session_id."])) /\ UNCHANGED <<local, calls>>
          ELSE IF ~Truthy(requestId)
          THEN Return(json(400, [error |-> "Missing request_id."])) /\ UNCHANGED <<local, calls>>
          ELSE /\ local' = [local EXCEPT !.sessionId = sessionId, !.requestId = requestId]
               /\ calls' = Append(calls, SessionGet(sessionId))
               /\ hpc' = "session"
               /\ UNCHANGED response
  /\ UNCHANGED <<handler, event, henv>> /\ UNCHANGED dnsVars

\* a check that compares the ids even when the session stores none
RidMismatch_Strict(rid, requestId) == rid # requestId

\* line 77: rid && rid !== requestId
RidMismatch(rid, requestId) == Truthy(rid) /\ rid # requestId

\* a check that takes any payment_status other than "unpaid" as paid
IsPaidForRelay_NotUnpaid(session) == session.payment_status # "unpaid"

\* line 71: session.payment_status === "paid"
IsPaidForRelay(session) == session.payment_status = "paid"

\* lines 81-82
SiteOrigin(ev, e) == Or(Or(Or(e.URL, e.DEPLOY_PRIME_URL), getOrigin(ev.headers)), Null)

\* lines 65-111: fetchCheckoutSession answered with out
RelaySessionFetched(out) ==
  /\ handler = "relay" /\ hpc = "session"
  /\ local' = [local EXCEPT !.out = out]
  /\ CASE out.t = "throw" -> Return(Rejected) /\ UNCHANGED calls
       [] out.t = "error" ->
            Return(json(out.status, [error |-> "Stripe error"])) /\ UNCHANGED calls
       [] OTHER ->
            LET session == out.data
                siteOrigin == SiteOrigin(event, henv)
            IN
            IF ~IsPaidForRelay(session)
            THEN Return(json(402, [error |-> "Payment not verified."])) /\ UNCHANGED calls
            ELSE IF RidMismatch(StoredRid(session), local.requestId)
            THEN /\ Return(json(400, [error |-> "Request ID did not match the paid session."]))
                 /\ UNCHANGED calls
            ELSE IF Truthy(siteOrigin)
            THEN /\ calls' = Append(calls,
                        Call("POST", siteOrigin, "/success.html", "",
                             SinkParams(RelayPayload(event).obj, local.requestId,
                                        Or(session.id, local.sessionId))))
                 /\ hpc' = "sink"
                 /\ UNCHANGED response
            ELSE /\ Return(json(200, [ok |-> TRUE, rid |-> local.requestId]))
                 /\ UNCHANGED calls
  /\ UNCHANGED <<handler, event, henv>> /\ UNCHANGED dnsVars

\* a relay that lets the sink's exception out of the handler
RelaySinkReturned_Propagates(outcome) ==
  /\ handler = "relay" /\ hpc = "sink"
  /\ local' = [local EXCEPT !.sink = outcome]
  /\ Return(IF outcome = "throw" THEN Rejected
            ELSE json(200, [ok |-> TRUE, rid |-> local.requestId]))
  /\ UNCHANGED <<handler, event, henv, calls>> /\ UNCHANGED dnsVars

\* lines 107-117: the sink fetch settled: "ok", "error" (an error status), "throw";
\* the response is not read and the catch swallows the exception
RelaySinkReturned(outcome) ==
  /\ handler = "relay" /\ hpc = "sink"
  /\ local' = [local EXCEPT !.sink = outcome]
  /\ Return(json(200, [ok |-> TRUE, rid |-> local.requestId]))
  /\ UNCHANGED <<handler, event, henv, calls>> /\ UNCHANGED dnsVars

----------------------------------------------------------------------------
(* Session fetcher and relay: the invocations and the answers of the payments API *)

Headers(o, r1, r2) == [origin |-> o, referer |-> r1, referrer |-> r2]

HeaderCases ==
  { Headers(Undefined, Undefined, Undefined),
    Headers("https://hdr.example", Undefined, Undefined),
    Headers(Undefined, "https://ref.example/start", Undefined),
    Headers(Undefined, Undefined, "https://ref.example/start"),
    Headers(Undefined, "not a url", Undefined) }

EmptyEnv ==
  [STRIPE_SECRET_KEY |-> Undefined, URL |-> Undefined, DEPLOY_PRIME_URL |-> Undefined,
   STRIPE_PRICE_ID |-> Undefined, CHECKOUT_MODE |-> Undefined,
   ENABLE_TIERED_PRICING |-> Undefined, STRIPE_TIERED_PRICE_IDS |-> Undefined,
   UNIT_AMOUNT |-> Undefined, CURRENCY |-> Undefined, PRODUCT_NAME |-> Undefined,
   PRODUCT_DESCRIPTION |-> Undefined]

ConfirmEnvs ==
  { [EmptyEnv EXCEPT !.STRIPE_SECRET_KEY = k, !.URL = u, !.DEPLOY_PRIME_URL = d] :
      k \in {Undefined, "sk_live_1"}, u \in {Undefined, "https://site.example"},
      d \in {Undefined, "https://deploy.example"} }

Body(kind, obj) == [kind |-> kind, obj |-> obj]

Event(method, headers, sessionIdParam, body) ==
  [httpMethod |-> method, headers |-> headers, query |-> [session_id |-> sessionIdParam],
   body |-> body]

FetcherBodies ==
  { Body("empty", EmptyPayload), Body("invalid", EmptyPayload), Body("null", EmptyPayload) }
  \cup { Body("object", [EmptyPayload EXCEPT !.session_id = a, !.sessionId = b]) :
           a \in {Undefined, " ", " cs_1 "}, b \in {Undefined, "cs_2"} }

FetcherEvents ==
  { Event(m, Headers(Undefined, Undefined, Undefined), q, b) :
      m \in {"GET", "POST", "PUT"}, q \in {Undefined, " ", "cs_q"}, b \in FetcherBodies }

RelayBodies ==
  { Body("empty", EmptyPayload), Body("invalid", EmptyPayload), Body("null", EmptyPayload) }
  \cup { Body("object", [EmptyPayload EXCEPT !.session_id = a, !.sessionId = b,
                                             !.request_id = c, !.requestId = d]) :
           a \in {Undefined, " ", " cs_1 "}, b \in {Undefined, "cs_2"},
           c \in {Undefined, " ", "VV-2024-00042", " VV-2024-00042 "},
           d \in {Undefined, "VV-2024-00043"} }
  \cup { Body("object", [EmptyPayload EXCEPT !.session_id = "cs_1",
                                             !.request_id = "VV-2024-00042",
                                             !.name = n, !.deliverables = ds]) :
           n \in {" ", "Ann"}, ds \in {<<"report">>, <<" ", "report">>} }

RelayEvents ==
  { Event(m, h, Undefined, b) : m \in {"GET", "POST"}, h \in HeaderCases, b \in RelayBodies }

Metadata(present, rid) == [present |-> present, rid |-> rid]

\* the checkout sessions the payments API may answer with; a missing field is Undefined,
\* and a null or empty answer (out.data || {}) is the session with no field at all
Sessions ==
  [id : {Undefined, "cs_1"},
   status : {"complete", "open"},
   payment_status : {Undefined, "paid", "unpaid", "no_payment_required"},
   metadata : {Metadata(FALSE, Undefined), Metadata(TRUE, Undefined),
               Metadata(TRUE, "VV-2024-00042"), Metadata(TRUE, "VV-2024-00043")},
   client_reference_id : {Undefined, "VV-2024-00042", "VV-2024-00043"}]

NoSession ==
  [id |-> Undefined, status |-> Undefined, payment_status |-> Undefined,
   metadata |-> Metadata(FALSE, Undefined), client_reference_id |-> Undefined]

\* what fetchCheckoutSession can come back with: the fetch or res.json() threw, the API
\* answered with an error status, or it answered with a session
SessionOutcomes ==
  { [t |-> "throw", status |-> 0, data |-> NoSession] }
  \cup { [t |-> "error", status |-> st, data |-> NoSession] : st \in {400, 401, 404, 500} }
  \cup { [t |-> "ok", status |-> 200, data |-> d] : d \in Sessions \cup {NoSession} }

\* the locals before the first await: no session fetched, no sink call settled
NoLocals ==
  [sessionId |-> "", requestId |-> "",
   out |-> [t |-> "none", status |-> 0, data |-> NoSession], sink |-> "none"]

DnsIdle ==
  /\ argv = <<>> /\ env = <<>> /\ dnsZones = <<>> /\ zone = <<>> /\ nextId = 1
  /\ pc = "idle" /\ cfg = NoCfg /\ cur = 0 /\ exitCode = 0 /\ reqs = <<>>
  /\ toDelete = <<>> /\ upserts = <<NoUpsert, NoUpsert>> /\ threw = "none" /\ zone0 = <<>>
  /\ printed = <<>> /\ parked = <<>> /\ history = <<>> /\ interleaved = FALSE

InitConfirm ==
  /\ DnsIdle
  /\ \/ handler = "fetcher" /\ event \in FetcherEvents
     \/ handler = "relay" /\ event \in RelayEvents
  /\ henv \in ConfirmEnvs
  /\ hpc = "start"
  /\ local = NoLocals
  /\ calls = <<>>
  /\ response = [kind |-> "none"]

NextConfirm ==
  \/ FetcherHandler
  \/ \E out \in SessionOutcomes : FetcherSessionFetched(out)
  \/ RelayHandler
  \/ \E out \in SessionOutcomes : RelaySessionFetched(out)
  \/ \E outcome \in {"ok", "error", "throw"} : RelaySinkReturned(outcome)

SpecConfirm == InitConfirm /\ [][NextConfirm]_vars

----------------------------------------------------------------------------
(* Session fetcher and relay: properties *)

\* the session the payments API answered with, once fetchCheckoutSession returned ok
Fetched == local.out.t = "ok"

FetchedSession == local.out.data

\* the tracking id the session stores: metadata.rid, else client_reference_id, else none ("")
TrackingId(session) ==
  IF session.metadata.present /\ Truthy(session.metadata.rid) THEN session.metadata.rid
  ELSE IF Truthy(session.client_reference_id) THEN session.client_reference_id
  ELSE ""

IsSinkCall(c) == c.method = "POST" /\ c.path = "/success.html"

SinkCalls == SelectSeq(calls, IsSinkCall)

\* C4: a relay invocation whose fetched session has a payment_status other than "paid"
\* (absent included) returns 402, and its only outbound call is the session GET.
C4_UnpaidSessionRejected ==
  (handler = "relay" /\ Fetched /\ FetchedSession.payment_status # "paid")
  => /\ hpc = "done"
     /\ response.kind = "json" /\ response.statusCode = 402
     /\ calls = <<SessionGet(local.sessionId)>>
     /\ Truthy(local.sessionId) /\ Truthy(local.requestId)

\* a session without payment_status, rejected although a site origin is configured and
\* the request id matches the stored one
C4_Witness ==
  /\ handler = "relay" /\ hpc = "done" /\ Fetched
  /\ FetchedSession.payment_status = Undefined
  /\ TrackingId(FetchedSession) = local.requestId
  /\ Truthy(henv.URL)
  /\ response.statusCode = 402

\* C5 as stated: for a paid session the relay returns 200 (and forwards) only when the
\* stored tracking id equals the request id; in every other case, a session without a
\* tracking id included, it returns 400 and does not call the sink.
C5_MismatchOrMissingRejected ==
  (handler = "relay" /\ Fetched /\ FetchedSession.payment_status = "paid")
  => IF TrackingId(FetchedSession) = local.requestId
     THEN hpc = "done" => response.statusCode = 200
     ELSE hpc = "done" /\ response.statusCode = 400 /\ SinkCalls = <<>>

\* C5 amended: for a paid session the relay returns 400, without a sink call, exactly
\* when the session stores a tracking id that differs from the (trimmed) request id;
\* when the stored id equals it, and also when the session stores no tracking id, the
\* relay goes on: it forwards to the sink if a site origin is known and returns 200.
C5_StoredIdMustMatch ==
  (handler = "relay" /\ Fetched /\ FetchedSession.payment_status = "paid")
  => LET stored == TrackingId(FetchedSession) IN
     IF stored # "" /\ stored # local.requestId
     THEN /\ hpc = "done"
          /\ response.statusCode = 400
          /\ calls = <<SessionGet(local.sessionId)>>
     ELSE /\ hpc \in {"sink", "done"}
          /\ hpc = "done" => response.statusCode = 200
          /\ Truthy(SiteOrigin(event, henv)) =>
               /\ Len(SinkCalls) = 1
               /\ \E i \in 1..Len(SinkCalls[1].params) :
                    SinkCalls[1].params[i] = <<"request_id", local.requestId>>

\* a paid session that stores no tracking id: the relay forwards under the caller's
\* request id and returns 200
C5_Witness ==
  /\ handler = "relay" /\ hpc = "done" /\ Fetched
  /\ FetchedSession.payment_status = "paid"
  /\ TrackingId(FetchedSession) = ""
  /\ Len(SinkCalls) = 1
  /\ response.statusCode = 200

\* C6: once the session is paid and the tracking-id check has passed, the relay calls
\* the sink at most once (not at all without a site origin) and returns
\* 200 {ok: true, rid: request_id} whatever the sink call did.
C6_BestEffortForward ==
  (/\ handler = "relay" /\ Fetched /\ FetchedSession.payment_status = "paid"
   /\ TrackingId(FetchedSession) \in {"", local.requestId})
  => /\ Len(SinkCalls) <= 1
     /\ ~Truthy(SiteOrigin(event, henv)) => SinkCalls = <<>> /\ hpc = "done"
     /\ hpc \in {"sink", "done"}
     /\ hpc = "done" =>
          /\ response = json(200, [ok |-> TRUE, rid |-> local.requestId])
          /\ local.sink = "none" <=> SinkCalls = <<>>

\* the sink call threw and the relay still answered 200
C6_Witness ==
  /\ handler = "relay" /\ hpc = "done" /\ local.sink = "throw"
  /\ Len(SinkCalls) = 1
  /\ response = json(200, [ok |-> TRUE, rid |-> local.requestId])
  /\ local.requestId = "VV-2024-00042"

\* C9: the fetcher reports paid = true exactly for payment_status "paid", whatever the
\* session's status; the relay returns 200 only for such a session; and when the
\* payments API answers the lookup with an error, both return the upstream status and
\* neither reports paid nor calls the sink.
C9_PaidOnlyWhenPaymentStatusPaid ==
  /\ (handler = "fetcher" /\ Fetched) =>
       /\ hpc = "done"
       /\ response.statusCode = 200
       /\ response.body.paid = (FetchedSession.payment_status = "paid")
       /\ response.body.payment_status = FetchedSession.payment_status
       /\ response.body.status = FetchedSession.status
  /\ (handler = "relay" /\ hpc = "done" /\ response.kind = "json"
      /\ response.statusCode = 200) =>
       Fetched /\ FetchedSession.payment_status = "paid"
  /\ (handler \in {"fetcher", "relay"} /\ local.out.t = "error") =>
       /\ hpc = "done"
       /\ response.statusCode = local.out.status
       /\ response.body = [error |-> "Stripe error"]
       /\ calls = <<SessionGet(local.sessionId)>>

\* a complete but unpaid session, reported as not paid
C9_Witness ==
  /\ handler = "fetcher" /\ hpc = "done" /\ Fetched
  /\ FetchedSession.status = "complete" /\ FetchedSession.payment_status = "unpaid"
  /\ response.body.paid = FALSE

----------------------------------------------------------------------------
(* Session creators: part_000 lines 95-239 (tiered), part_001 lines 139-223 (legacy) *)

\* a test without the anchors: any string that starts with a well-formed id passes
RidRegex_Unanchored(s) ==
  LET c == Chars(s) IN
  /\ Len(c) >= 13
  /\ c[1] = "V" /\ c[2] = "V" /\ c[3] = "-"
  /\ \A i \in 4..7 : IsDigit(c[i])
  /\ c[8] = "-"
  /\ \A i \in 9..13 : IsDigit(c[i])

\* { statusCode, body } with a body that is plain text
Plain(statusCode, text) == [kind |-> "plain", statusCode |-> statusCode, body |-> [text |-> text]]

\* /^VV-\d{4}-\d{5}$/.test(rid)
RidRegex(s) ==
  LET c == Chars(s) IN
  /\ Len(c) = 13
  /\ c[1] = "V" /\ c[2] = "V" /\ c[3] = "-"
  /\ \A i \in 4..7 : IsDigit(c[i])
  /\ c[8] = "-"
  /\ \A i \in 9..13 : IsDigit(c[i])

\* String.prototype.toLowerCase on the environment values of the model
toLowerCase(s) ==
  CASE s = "OFF" -> "off"
    [] s = "False" -> "false"
    [] s = "EUR" -> "eur"
    [] s = "USD" -> "usd"
    [] OTHER -> s

\* part_000 line 111: !/^(0|false|no|off)$/i.test(String(process.env.ENABLE_TIERED_PRICING || ""))
EnableTiered(e) == toLowerCase(Or(e.ENABLE_TIERED_PRICING, "")) \notin {"0", "false", "no", "off"}

\* JS values a property lookup can give: a number, a function object, undefined
Num(n) == [t |-> "number", n |-> n, s |-> ""]
Fn(name) == [t |-> "function", n |-> 0, s |-> name]
Undef == [t |-> "undefined", n |-> 0, s |-> ""]

\* ToBoolean
ToBoolean(v) == IF v.t = "number" THEN v.n # 0 ELSE v.t = "function"

\* part_000 lines 134-147
PRICING_CENTS ==
  [tier_a |-> [brief_remote |-> 12900, command_remote |-> 24900,
               verify_ppi_inperson |-> 29900, confirm_diag_inperson |-> 17900],
   tier_b |-> [brief_remote |-> 16900, command_remote |-> 32900,
               verify_ppi_inperson |-> 39900, confirm_diag_inperson |-> 22900]]

\* part_000 lines 149-154
SERVICE_NAMES ==
  [brief_remote |-> "VINvoyant Brief (Remote)",
   command_remote |-> "VINvoyant Command (Remote)",
   verify_ppi_inperson |-> "VINvoyant Verify (Mobile PPI)",
   confirm_diag_inperson |-> "VINvoyant Confirm (Diag + Quote)"]

\* the keys of the model that every object literal inherits from Object.prototype;
\* obj[key] gives a function object for them
ObjectPrototypeKeys == {"constructor", "toString"}

\* part_000 line 169: PRICING_CENTS[tierKey]?.[serviceKey], a JS property lookup: an own
\* property, else a member inherited from Object.prototype, else undefined
PriceLookup(tierKey, serviceKey) ==
  IF tierKey \in DOMAIN PRICING_CENTS
  THEN IF serviceKey \in DOMAIN PRICING_CENTS[tierKey]
       THEN Num(PRICING_CENTS[tierKey][serviceKey])
       ELSE IF serviceKey \in ObjectPrototypeKeys THEN Fn(serviceKey) ELSE Undef
  ELSE IF tierKey \in ObjectPrototypeKeys /\ serviceKey \in ObjectPrototypeKeys
       THEN Fn(serviceKey)
       ELSE Undef

\* part_000 line 189: SERVICE_NAMES[serviceKey] || "VINvoyant Service"
ServiceName(serviceKey) ==
  IF serviceKey \in DOMAIN SERVICE_NAMES THEN SERVICE_NAMES[serviceKey]
  ELSE IF serviceKey \in ObjectPrototypeKeys THEN "function " \o serviceKey
  ELSE "VINvoyant Service"

\* the STRIPE_TIERED_PRICE_IDS texts of the model
PriceIdsGood == "{\"tier_a\":{\"brief_remote\":\"price_1A\"}}"
PriceIdsBadPrefix == "{\"tier_a\":{\"brief_remote\":\"prod_1A\"}}"
PriceIdsNotJson == "{tier_a"

\* part_000 lines 174-182: tieredPriceIds?.[tierKey]?.[serviceKey] when it is a string;
\* Undefined when the variable is unset or blank, is not JSON, or holds no string there
MappedPriceId(e, tierKey, serviceKey) ==
  LET raw == Or(e.STRIPE_TIERED_PRICE_IDS, "") IN
  IF tierKey = "tier_a" /\ serviceKey = "brief_remote"
  THEN CASE raw = PriceIdsGood -> "price_1A"
         [] raw = PriceIdsBadPrefix -> "prod_1A"
         [] OTHER -> Undefined
  ELSE Undefined

\* part_000 line 183: /^price_/.test(mappedPriceId)
PriceRegex(s) ==
  LET c == Chars(s) IN Len(c) >= 6 /\ SubSeq(c, 1, 6) = <<"p", "r", "i", "c", "e", "_">>

\* line_items[0] of the session-creation form
PriceItem(price) ==
  [kind |-> "price", price |-> price, currency |-> "", unit_amount |-> Undef,
   name |-> "", description |-> "", quantity |-> "1"]

PriceDataItem(currency, unitAmount, name, description) ==
  [kind |-> "price_data", price |-> "", currency |-> currency, unit_amount |-> unitAmount,
   name |-> name, description |-> description, quantity |-> "1"]

\* part_000 lines 156-164, part_001 lines 174-180: the form without its line item.
\* encodeURIComponent leaves a rid that passed the test as it is.
BaseParams(e, origin, rid, email, serviceLevel, vehicleTier) ==
  [mode |-> Or(e.CHECKOUT_MODE, "payment"),
   success_url |-> <<origin, "/paid.html?session_id={CHECKOUT_SESSION_ID}&rid=", rid>>,
   cancel_url |-> <<origin, "/#start?canceled=1&rid=", rid>>,
   metadata_rid |-> rid,
   metadata_service_level |-> IF Truthy(serviceLevel) THEN serviceLevel ELSE Undefined,
   metadata_vehicle_tier |-> IF Truthy(vehicleTier) THEN vehicleTier ELSE Undefined,
   client_reference_id |-> rid,
   customer_email |-> IF Truthy(email) THEN email ELSE Undefined]

\* POST https://api.stripe.com/v1/checkout/sessions
CreateCall(params, item) ==
  Call("POST", "https://api.stripe.com", "/v1/checkout/sessions", "",
       [base |-> params, line_item |-> item])

\* the creators' payload: {} when the body is not JSON
CreatorPayload(ev) ==
  LET parsed == JSONparse(ev.body) IN
  IF parsed.t = "throw" THEN [t |-> "object", obj |-> EmptyPayload] ELSE parsed

\* getOrigin(event.headers) || process.env.URL || process.env.DEPLOY_PRIME_URL
CreatorOrigin(ev, e) == Or(Or(getOrigin(ev.headers), e.URL), e.DEPLOY_PRIME_URL)

\* part_000 lines 202-218 and part_001 lines 186-202: the inline price of the fixed-price
\* mode; fallback is the amount used when UNIT_AMOUNT is unset
InlineItem(e, fallback, name, description) ==
  LET unitAmount == parseInt(Or(e.UNIT_AMOUNT, fallback)) IN
  IF unitAmount.nan \/ unitAmount.n < 50
  THEN [ok |-> FALSE, item |-> PriceItem("")]
  ELSE [ok |-> TRUE,
        item |-> PriceDataItem(toLowerCase(Or(e.CURRENCY, "usd")), Num(unitAmount.n),
                               Or(e.PRODUCT_NAME, name), Or(e.PRODUCT_DESCRIPTION, description))]

\* the handler sends the session-creation request and awaits it
SendCreate(params, item) ==
  /\ calls' = Append(calls, CreateCall(params, item))
  /\ hpc' = "create"
  /\ UNCHANGED response

\* part_000 lines 166-218: the line item, or the reply that ends the invocation
TieredItem(e, rid, serviceLevel, vehicleTier) ==
  IF EnableTiered(e)
  THEN LET tierKey == vehicleTier
           serviceKey == serviceLevel
           unitAmount == PriceLookup(tierKey, serviceKey)
           mappedPriceId == MappedPriceId(e, tierKey, serviceKey)
       IN
       IF ~Truthy(tierKey) \/ ~Truthy(serviceKey)
       THEN [ok |-> FALSE, item |-> PriceItem(""),
             reply |-> json(400, [error |-> "Missing service/tier selection for tiered pricing."])]
       ELSE IF mappedPriceId # Undefined /\ PriceRegex(mappedPriceId)
       THEN [ok |-> TRUE, item |-> PriceItem(mappedPriceId), reply |-> json(0, [error |-> ""])]
       ELSE IF ToBoolean(unitAmount)
       THEN [ok |-> TRUE,
             item |-> PriceDataItem("usd", unitAmount, ServiceName(serviceKey),
                                    <<IF vehicleTier = "tier_b" THEN "Tier B" ELSE "Tier A",
                                      "Request ID", rid>>),
             reply |-> json(0, [error |-> ""])]
       ELSE [ok |-> FALSE, item |-> PriceItem(""),
             reply |-> json(400, [error |-> "Invalid or missing service/tier selection for tiered pricing."])]
  ELSE IF Truthy(e.STRIPE_PRICE_ID)
  THEN [ok |-> TRUE, item |-> PriceItem(e.STRIPE_PRICE_ID), reply |-> json(0, [error |-> ""])]
  ELSE LET inline == InlineItem(e, "12900", "VINvoyant Brief (Legacy)",
                                "Legacy fixed-price checkout (tiered pricing disabled)") IN
       [ok |-> inline.ok, item |-> inline.item,
        reply |-> json(500, [error |-> "Invalid UNIT_AMOUNT env var (must be cents, e.g. 12900)."])]

\* part_000 lines 103-228: up to the await of the session-creation request
TieredHandler ==
  /\ handler = "tiered" /\ hpc = "start"
  /\ IF event.httpMethod # "POST"
     THEN Return(Plain(405, "Method Not Allowed")) /\ UNCHANGED calls
     ELSE IF ~Truthy(henv.STRIPE_SECRET_KEY)
     THEN /\ Return(json(500, [error |-> "Missing STRIPE_SECRET_KEY in environment variables."]))
          /\ UNCHANGED calls
     ELSE IF CreatorPayload(event).t = "null"
     THEN Return(Rejected) /\ UNCHANGED calls
     ELSE LET payload == CreatorPayload(event).obj
              rid == TrimOrEmpty(payload.rid)
              email == TrimOrEmpty(payload.email)
              serviceLevel == TrimOrEmpty(Or(payload.service_level, payload.serviceLevel))
              vehicleTier == TrimOrEmpty(Or(payload.vehicle_tier, payload.vehicleTier))
              origin == CreatorOrigin(event, henv)
              priced == TieredItem(henv, rid, serviceLevel, vehicleTier)
          IN
          IF ~Truthy(origin)
          THEN /\ Return(json(400, [error |-> "Could not determine site origin."]))
               /\ UNCHANGED calls
          ELSE IF ~Truthy(rid) \/ ~RidRegex(rid)
          THEN /\ Return(json(400, [error |-> "Invalid or missing Request ID."]))
               /\ UNCHANGED calls
          ELSE IF ~priced.ok
          THEN Return(priced.reply) /\ UNCHANGED calls
          ELSE SendCreate(BaseParams(henv, origin, rid, email, serviceLevel, vehicleTier),
                          priced.item)
  /\ UNCHANGED <<handler, event, henv, local>> /\ UNCHANGED dnsVars

\* part_001 lines 147-212: up to the await of the session-creation request
LegacyHandler ==
  /\ handler = "legacy" /\ hpc = "start"
  /\ IF event.httpMethod # "POST"
     THEN Return(Plain(405, "Method Not Allowed")) /\ UNCHANGED calls
     ELSE IF ~Truthy(henv.STRIPE_SECRET_KEY)
     THEN /\ Return(json(500, [error |-> "Missing STRIPE_SECRET_KEY in environment variables."]))
          /\ UNCHANGED calls
     ELSE IF CreatorPayload(event).t = "null"
     THEN Return(Rejected) /\ UNCHANGED calls
     ELSE LET payload == CreatorPayload(event).obj
              rid == TrimOrEmpty(payload.rid)
              email == TrimOrEmpty(payload.email)
              origin == CreatorOrigin(event, henv)
              inline == InlineItem(henv, "9900", "VINvoyant Intake",
                                   "Concierge Vehicle Intelligence Intake")
          IN
          IF ~Truthy(origin)
          THEN /\ Return(json(400, [error |-> "Could not determine site origin."]))
               /\ UNCHANGED calls
          ELSE IF ~Truthy(rid) \/ ~RidRegex(rid)
          THEN /\ Return(json(400, [error |-> "Invalid or missing Request ID."]))
               /\ UNCHANGED calls
          ELSE IF Truthy(henv.STRIPE_PRICE_ID)
          THEN SendCreate(BaseParams(henv, origin, rid, email, "", ""),
                          PriceItem(henv.STRIPE_PRICE_ID))
          ELSE IF ~inline.ok
          THEN /\ Return(json(500, [error |-> "Invalid UNIT_AMOUNT env var (must be cents, e.g. 9900)."]))
               /\ UNCHANGED calls
          ELSE SendCreate(BaseParams(henv, origin, rid, email, "", ""), inline.item)
  /\ UNCHANGED <<handler, event, henv, local>> /\ UNCHANGED dnsVars

\* part_000 lines 220-238, part_001 lines 204-222: the session-creation request settled:
\* the API created the session, answered with an error status, or the fetch threw
CreateReturned(out) ==
  /\ handler \in {"tiered", "legacy"} /\ hpc = "create"
  /\ CASE out.t = "ok" -> Return(json(200, [url |-> out.url, sessionId |-> out.id]))
       [] out.t = "error" -> Return(json(out.status, [error |-> "Stripe error"]))
       [] OTHER -> Return(json(500, [error |-> "Server error creating session."]))
  /\ local' = [local EXCEPT !.out = [t |-> out.t, status |-> out.status, data |-> NoSession]]
  /\ UNCHANGED <<handler, event, henv, calls>> /\ UNCHANGED dnsVars

----------------------------------------------------------------------------
(* Session creators: the invocations and the answers of the payments API *)

CreateOutcomes ==
  { [t |-> "ok", status |-> 200, url |-> "https://checkout.stripe.com/c/pay/cs_1", id |-> "cs_1"],
    [t |-> "error", status |-> 400, url |-> "", id |-> ""],
    [t |-> "error", status |-> 401, url |-> "", id |-> ""],
    [t |-> "throw", status |-> 0, url |-> "", id |-> ""] }

Rids ==
  {Undefined, " ", "VV-2024-00042", " VV-2024-00042 ", "VV-2024-0004", "VV-2024-000420",
   "vv-2024-00042", "VV-20a4-00042", "xVV-2024-00042", "VV_2024_00042"}

\* <<vehicle_tier, vehicleTier>> and <<service_level, serviceLevel>> of the payload
TierSelections ==
  { <<Undefined, Undefined>>, <<"tier_a", Undefined>>, <<"tier_b", Undefined>>,
    <<"tier_c", Undefined>>, <<"constructor", Undefined>>, <<Undefined, " tier_b ">> }

ServiceSelections ==
  { <<Undefined, Undefined>>, <<"brief_remote", Undefined>>, <<"command_remote", Undefined>>,
    <<"verify_ppi_inperson", Undefined>>, <<"confirm_diag_inperson", Undefined>>,
    <<"unknown", Undefined>>, <<"toString", Undefined>>, <<Undefined, " brief_remote ">> }

CreatorBody(rid, tier, service, email) ==
  Body("object", [EmptyPayload EXCEPT !.rid = rid, !.email = email,
                                      !.vehicle_tier = tier[1], !.vehicleTier = tier[2],
                                      !.service_level = service[1], !.serviceLevel = service[2]])

\* <<UNIT_AMOUNT, CURRENCY>>
AmountConfigs ==
  { <<Undefined, Undefined>>, <<"40", Undefined>>, <<"abc", Undefined>>, <<Undefined, "EUR">> }

\* every configuration of the pricing variables, the secret set
PricingEnvs ==
  { [EmptyEnv EXCEPT !.STRIPE_SECRET_KEY = "sk_live_1",
                     !.ENABLE_TIERED_PRICING = en, !.STRIPE_TIERED_PRICE_IDS = ids,
                     !.STRIPE_PRICE_ID = pid, !.UNIT_AMOUNT = amt[1], !.CURRENCY = amt[2]] :
      en \in {Undefined, "0", "OFF", "1"},
      ids \in {Undefined, " ", PriceIdsNotJson, PriceIdsGood, PriceIdsBadPrefix},
      pid \in {Undefined, "price_legacy"},
      amt \in AmountConfigs }

\* the configurations that vary the secret and the site URL
EdgeEnvs ==
  { [EmptyEnv EXCEPT !.STRIPE_SECRET_KEY = k, !.URL = u, !.DEPLOY_PRIME_URL = d] :
      k \in {Undefined, "sk_live_1"}, u \in {Undefined, "https://site.example"},
      d \in {Undefined, "https://deploy.example"} }

InitCheckout ==
  /\ DnsIdle
  /\ \/ /\ handler = "tiered"
        /\ henv \in PricingEnvs
        /\ event \in { Event("POST", Headers("https://hdr.example", Undefined, Undefined),
                             Undefined, CreatorBody(r, t, sv, Undefined)) :
                         r \in Rids, t \in TierSelections, sv \in ServiceSelections }
     \/ /\ handler = "legacy"
        /\ henv \in PricingEnvs
        /\ event \in { Event("POST", Headers("https://hdr.example", Undefined, Undefined),
                             Undefined, CreatorBody(r, <<Undefined, Undefined>>,
                                                    <<Undefined, Undefined>>, em)) :
                         r \in Rids, em \in {Undefined, "ann@example.com"} }
     \/ /\ handler \in {"tiered", "legacy"}
        /\ henv \in EdgeEnvs
        /\ event \in { Event(m, h, Undefined, b) :
                         m \in {"GET", "POST"}, h \in HeaderCases,
                         b \in { Body("empty", EmptyPayload), Body("invalid", EmptyPayload),
                                 Body("null", EmptyPayload),
                                 CreatorBody("VV-2024-0004", <<"tier_a", Undefined>>,
                                             <<"brief_remote", Undefined>>, Undefined),
                                 CreatorBody(" VV-2024-00042 ", <<"tier_a", Undefined>>,
                                             <<"brief_remote", Undefined>>, "ann@example.com") } }
  /\ hpc = "start"
  /\ local = NoLocals
  /\ calls = <<>>
  /\ response = [kind |-> "none"]

NextCheckout ==
  \/ TieredHandler
  \/ LegacyHandler
  \/ \E out \in CreateOutcomes : CreateReturned(out)

SpecCheckout == InitCheckout /\ [][NextCheckout]_vars

----------------------------------------------------------------------------
(* Session creators: properties *)

IsCreator == handler \in {"tiered", "legacy"}

\* the payload the creator reads: the body's object, {} for no body or a body that is not JSON
HasPayload == event.body.kind # "null"

PayloadOf == IF event.body.kind = "object" THEN event.body.obj ELSE EmptyPayload

\* the rid values of the model that are VV-dddd-ddddd once trimmed
WellFormedRidInputs == {"VV-2024-00042", " VV-2024-00042 ", "VV-2024-00043"}

InvalidRid == PayloadOf.rid \notin WellFormedRidInputs

IsCreateCall(c) == c.method = "POST" /\ c.path = "/v1/checkout/sessions"

\* C7: a POST to the tiered or the legacy creator whose rid, trimmed, is empty or is not
\* VV-dddd-ddddd never issues an outbound call, whatever the pricing variables and the
\* tier/service selection; once the handler has passed its secret check and read a
\* payload object, its response is a 400.
C7_InvalidRidRejected ==
  (IsCreator /\ event.httpMethod = "POST" /\ InvalidRid)
  => /\ calls = <<>>
     /\ (hpc # "start" /\ Truthy(henv.STRIPE_SECRET_KEY) /\ HasPayload)
        => /\ hpc = "done"
           /\ response.kind = "json" /\ response.statusCode = 400

\* a rid one digit too long, sent to the tiered creator with a known tier/service pair
\* and a price-ID override configured, answered 400
C7_Witness ==
  /\ handler = "tiered" /\ hpc = "done"
  /\ event.httpMethod = "POST"
  /\ PayloadOf.rid = "VV-2024-000420"
  /\ PayloadOf.vehicle_tier = "tier_a" /\ PayloadOf.service_level = "brief_remote"
  /\ henv.STRIPE_TIERED_PRICE_IDS = PriceIdsGood
  /\ Truthy(henv.STRIPE_SECRET_KEY)
  /\ response.statusCode = 400 /\ calls = <<>>

\* the same for the legacy creator: a lowercase rid with a price id configured
C7_WitnessLegacy ==
  /\ handler = "legacy" /\ hpc = "done"
  /\ event.httpMethod = "POST"
  /\ PayloadOf.rid = "vv-2024-00042"
  /\ henv.STRIPE_PRICE_ID = "price_legacy"
  /\ response.statusCode = 400 /\ calls = <<>>

\* the tier and the service the payload selects
SelectedTier == TrimOrEmpty(Or(PayloadOf.vehicle_tier, PayloadOf.vehicleTier))

SelectedService == TrimOrEmpty(Or(PayloadOf.service_level, PayloadOf.serviceLevel))

TableTiers == {"tier_a", "tier_b"}

TableServices ==
  {"brief_remote", "command_remote", "verify_ppi_inperson", "confirm_diag_inperson"}

InTable == SelectedTier \in TableTiers /\ SelectedService \in TableServices

\* the tiered creator has run with tiered pricing enabled, a well-formed rid, an origin,
\* the secret, and no price-ID override
TieredCase ==
  /\ handler = "tiered" /\ hpc # "start"
  /\ event.httpMethod = "POST" /\ HasPayload
  /\ Truthy(henv.STRIPE_SECRET_KEY)
  /\ Truthy(CreatorOrigin(event, henv))
  /\ ~InvalidRid
  /\ henv.ENABLE_TIERED_PRICING \in {Undefined, "1"}
  /\ henv.STRIPE_TIERED_PRICE_IDS \in {Undefined, " "}

\* C8: in the tiered case, a (tier, service) pair of the static table gives one
\* session-creation request whose single line item is inline price_data with the table's
\* cents (12900 for tier_a/brief_remote), currency usd, quantity 1; a pair absent from
\* the table gives 400 and no outbound call.
C8_TieredPriceResolution ==
  TieredCase
  => IF InTable
     THEN /\ Len(calls) = 1 /\ IsCreateCall(calls[1])
          /\ LET item == calls[1].params.line_item IN
             /\ item.kind = "price_data"
             /\ item.unit_amount = Num(PRICING_CENTS[SelectedTier][SelectedService])
             /\ (SelectedTier = "tier_a" /\ SelectedService = "brief_remote"
                 => item.unit_amount = Num(12900))
             /\ item.currency = "usd"
             /\ item.quantity = "1"
     ELSE /\ hpc = "done"
          /\ response.kind = "json" /\ response.statusCode = 400
          /\ calls = <<>>

\* the pair (tier_a, toString) is absent from the table, and the handler has sent a
\* session-creation request whose unit_amount is a function's text
C8_Witness ==
  /\ TieredCase
  /\ SelectedTier = "tier_a" /\ SelectedService = "toString"
  /\ Len(calls) = 1 /\ IsCreateCall(calls[1])
  /\ calls[1].params.line_item.unit_amount = Fn("toString")

\* the part of C8 the handler keeps: pairs of the table are priced by the table, and a
\* pair whose names are not property names of any object is refused
C8_TablePairsPriced ==
  TieredCase
  => /\ InTable
        => /\ Len(calls) = 1 /\ IsCreateCall(calls[1])
           /\ calls[1].params.line_item =
                PriceDataItem("usd", Num(PRICING_CENTS[SelectedTier][SelectedService]),
                              SERVICE_NAMES[SelectedService],
                              calls[1].params.line_item.description)
     /\ (SelectedTier \notin TableTiers \cup ObjectPrototypeKeys
         \/ SelectedService \notin TableServices \cup ObjectPrototypeKeys)
        => /\ hpc = "done" /\ response.statusCode = 400 /\ calls = <<>>

====
